---- MODULE Spec2Model ----
(***************************************************************************)
(* Model of the swarms-multi-agent backend: the analytics engines of       *)
(* agents/tier2.py, the ensemble voter, the portfolio optimizer and the    *)
(* executor of agents/tier3.py, the trading cycles of                      *)
(* core/trading_floor.py and simple_main.py, the JSON storage of           *)
(* services/json_storage.py and the connection manager of                  *)
(* core/websocket_manager.py.                                              *)
(*                                                                         *)
(* Numbers.  Where the code's result is compared against a tolerance or a  *)
(* range (weights, Kelly fraction, RSI) the arithmetic is done on exact    *)
(* rationals <<n, d>>.  Where the code tests a computed float against 0    *)
(* (the variance guards) the arithmetic is binary floating point with      *)
(* round-to-nearest-even, at a reduced mantissa width.                     *)
(***************************************************************************)
EXTENDS Integers, Sequences, FiniteSets, TLC

VARIABLES
    portfolio,          \* frame of PortfolioAgent: decisions in, weights out
    vote,               \* frame of StrategyAgent._weighted_vote
    ensemble,           \* frame of two runs of StrategyAgent.ensemble_decision_making
    kelly,              \* frame of RiskCalculatorAgent.kelly_criterion
    correlation,        \* frame of CorrelationAgent.calculate_correlation
    rsi,                \* frame of TechnicalAnalystAgent.calculate_rsi
    last_market_data,   \* AutonomousTradingFloor.last_market_data
    recent_decisions,   \* AutonomousTradingFloor.recent_decisions
    trading_decisions,  \* json_storage: the saved trading decisions
    cycle,              \* per caller: the frame of its execute_trading_cycle call
    executor,           \* frame of ExecutorAgent._plan_trade_execution
    regime,             \* frame of CorrelationAgent.assess_market_regime
    risk,               \* frame of RiskCalculatorAgent.calculate_var / calculate_sharpe_ratio
    macd,               \* frame of TechnicalAnalystAgent.calculate_macd
    simple_cycle,       \* frame of SimpleTradingFloor.execute_trading_cycle
    storage,            \* JSONStorage: the two files and the saves made
    manager,            \* ConnectionManager and the broadcast in progress
    rebalancing         \* frame of ExecutorAgent.execute_rebalancing

vars == <<portfolio, vote, ensemble, kelly, correlation, rsi,
          last_market_data, recent_decisions, trading_decisions, cycle,
          executor, regime, risk, macd,
          simple_cycle, storage, manager, rebalancing>>

Idle == [pc |-> "idle"]

----------------------------------------------------------------------------
(* Exact rationals: <<n, d>> with d > 0 and gcd(n, d) = 1.                 *)

Abs(x) == IF x < 0 THEN -x ELSE x

RECURSIVE GCD(_, _)
GCD(a, b) == IF b = 0 THEN a ELSE GCD(b, a % b)

Rat(n, d) ==
    LET s == IF d < 0 THEN -1 ELSE 1
        g == GCD(Abs(n), Abs(d))
    IN  <<(s * n) \div g, (s * d) \div g>>

RInt(n) == <<n, 1>>
RZero == RInt(0)
ROne == RInt(1)

RAdd(a, b) ==
    LET g == GCD(a[2], b[2])
    IN  Rat(a[1] * (b[2] \div g) + b[1] * (a[2] \div g), (a[2] \div g) * b[2])

RNeg(a) == <<-a[1], a[2]>>
RSub(a, b) == RAdd(a, RNeg(b))

RMul(a, b) ==
    LET g1 == GCD(Abs(a[1]), b[2])
        g2 == GCD(Abs(b[1]), a[2])
    IN  Rat((a[1] \div g1) * (b[1] \div g2), (a[2] \div g2) * (b[2] \div g1))

\* a / b for b # 0
RDiv(a, b) == RMul(a, Rat(b[2], b[1]))

RLt(a, b) == RSub(a, b)[1] < 0
RLe(a, b) == RSub(a, b)[1] <= 0
RMin(a, b) == IF RLe(a, b) THEN a ELSE b
RMax(a, b) == IF RLe(a, b) THEN b ELSE a
RAbs(a) == <<Abs(a[1]), a[2]>>

----------------------------------------------------------------------------
(* PortfolioAgent (agents/tier3.py).                                        *)

CryptoAssets == <<"BTC", "ETH", "SOL">>
Crypto == {"BTC", "ETH", "SOL"}
Assets == Crypto \cup {"CASH"}
Actions == {"BUY", "SELL", "HOLD"}

\* confidences a Decision may carry (percent, within [0, 95])
Confidences == {0, 20, 40, 60, 80, 95}
Decisions == [action : Actions, confidence : Confidences]

max_position_size == Rat(3, 10)
max_crypto_weight == Rat(8, 10)
min_cash == Rat(5, 100)
base_crypto_weight == Rat(25, 100)
cash_weight == Rat(25, 100)

\* sum(w[a] for a in S)
RECURSIVE SumWeights(_, _)
SumWeights(w, S) ==
    IF S = {} THEN RZero
    ELSE LET a == CHOOSE x \in S : TRUE
         IN  RAdd(w[a], SumWeights(w, S \ {a}))

\* one pass of the loop "for asset, decision in strategy_decisions.items()"
AdjustForDecision(w, asset, decision) ==
    LET confidence == Rat(decision.confidence, 100)
    IN  IF decision.action = "BUY"
        THEN LET adjustment == RMul(Rat(1, 10), confidence)
             IN  [w EXCEPT ![asset] = RAdd(@, adjustment),
                           !["CASH"] = RSub(@, RDiv(adjustment, RInt(3)))]
        ELSE IF decision.action = "SELL"
        THEN LET adjustment == RMul(Rat(15, 100), confidence)
             IN  [w EXCEPT ![asset] = RSub(@, adjustment),
                           !["CASH"] = RAdd(@, adjustment)]
        ELSE w

RECURSIVE AdjustAll(_, _, _)
AdjustAll(w, strategy_decisions, i) ==
    IF i > Len(CryptoAssets) THEN w
    ELSE AdjustAll(AdjustForDecision(w, CryptoAssets[i],
                                     strategy_decisions[CryptoAssets[i]]),
                   strategy_decisions, i + 1)

\* "target_weights[asset] = max(0, ...)", then division by the total
ClampAndNormalize(w) ==
    LET clamped == [a \in Assets |-> RMax(RZero, w[a])]
        total_weight == SumWeights(clamped, Assets)
    IN  IF RLt(RZero, total_weight)
        THEN [a \in Assets |-> RDiv(clamped[a], total_weight)]
        ELSE clamped

calculate_target_weights(strategy_decisions) ==
    LET base == [a \in Assets |->
                    IF a = "CASH" THEN cash_weight ELSE base_crypto_weight]
    IN  ClampAndNormalize(AdjustAll(base, strategy_decisions, 1))

\* mutant: the cap lands on CASH instead of on the non-cash assets
CapPositions_CashOnly(w) ==
    [a \in Assets |-> IF a # "CASH" THEN w[a] ELSE RMin(w[a], max_position_size)]

\* maximum position size: min(weight, max_position_size) on the non-cash assets
CapPositions(w) ==
    [a \in Assets |-> IF a = "CASH" THEN w[a] ELSE RMin(w[a], max_position_size)]

\* mutant: the 80% cap is not applied
CapCrypto_Skip(w) == w

\* at most 80% in crypto: the excess moves to CASH
CapCrypto(w) ==
    LET crypto_weight == SumWeights(w, Crypto)
    IN  IF RLt(max_crypto_weight, crypto_weight)
        THEN LET excess == RSub(crypto_weight, max_crypto_weight)
                 reduction(a) == RMul(excess, RDiv(w[a], crypto_weight))
             IN  [a \in Assets |->
                    IF a = "CASH"
                    THEN RAdd(RAdd(RAdd(w[a], reduction("BTC")), reduction("ETH")),
                              reduction("SOL"))
                    ELSE RSub(w[a], reduction(a))]
        ELSE w

\* mutant: the minimum cash position is not enforced
CashFloor_Skip(w) == w

\* minimum cash position: the deficit comes out of the other positions
CashFloor(w) ==
    IF RLt(w["CASH"], min_cash)
    THEN LET deficit == RSub(min_cash, w["CASH"])
             total_other == SumWeights(w, Crypto)
         IN  IF RLt(RZero, total_other)
             THEN [a \in Assets |->
                     IF a = "CASH" THEN min_cash
                     ELSE RSub(w[a], RMul(deficit, RDiv(w[a], total_other)))]
             ELSE w
    ELSE w

apply_risk_constraints(target_weights) ==
    CashFloor(CapCrypto(CapPositions(target_weights)))

NoWeights == [a \in Assets |-> RZero]

IdleFloor ==
    /\ last_market_data = Idle
    /\ recent_decisions = <<>>
    /\ trading_decisions = <<>>
    /\ cycle = Idle

IdleServices ==
    /\ simple_cycle = Idle /\ storage = Idle
    /\ manager = Idle /\ rebalancing = Idle

\* the iteration order of the target_weights dict
AssetOrder == <<"BTC", "ETH", "SOL", "CASH">>

\* mutant: rebalance only above 3%
rebalance_threshold_3pct == Rat(3, 100)

rebalance_threshold == Rat(2, 100)
high_priority_threshold == Rat(1, 10)

Position(weight, value) == [weight |-> weight, value |-> value]

\* the portfolio optimize_portfolio falls back to (weights 0.4/0.3/0.2/0.1)
DefaultPortfolio ==
    [a \in Assets |->
        IF a = "BTC" THEN Position(Rat(40, 100), 1000)
        ELSE IF a = "ETH" THEN Position(Rat(30, 100), 750)
        ELSE IF a = "SOL" THEN Position(Rat(20, 100), 500)
        ELSE Position(Rat(10, 100), 250)]

\* a portfolio close to the base allocation, and one that holds no SOL
NearBasePortfolio ==
    [a \in Assets |->
        IF a = "BTC" THEN Position(Rat(27, 100), 675)
        ELSE IF a = "ETH" THEN Position(Rat(25, 100), 625)
        ELSE IF a = "SOL" THEN Position(Rat(23, 100), 575)
        ELSE Position(Rat(25, 100), 625)]

NoSolPortfolio ==
    [a \in Assets \ {"SOL"} |->
        IF a = "BTC" THEN Position(Rat(30, 100), 750)
        ELSE IF a = "ETH" THEN Position(Rat(30, 100), 750)
        ELSE Position(Rat(40, 100), 1000)]

CurrentPortfolios == {DefaultPortfolio, NearBasePortfolio, NoSolPortfolio}

\* current_portfolio.get(asset, {}).get("weight", 0)
current_weight(current_portfolio, asset) ==
    IF asset \in DOMAIN current_portfolio
    THEN current_portfolio[asset].weight ELSE RZero

\* sum(pos["value"] for pos in current_portfolio.values())
RECURSIVE SumValues(_, _)
SumValues(current_portfolio, S) ==
    IF S = {} THEN 0
    ELSE LET a == CHOOSE x \in S : TRUE
         IN  current_portfolio[a].value + SumValues(current_portfolio, S \ {a})

total_value(current_portfolio) ==
    SumValues(current_portfolio, DOMAIN current_portfolio)

\* round(x, 2): the nearest multiple of 1/100, a tie going to the even one
Round2(x) ==
    LET sign == IF x[1] < 0 THEN -1 ELSE 1
        y == RMul(RAbs(x), RInt(100))
        q == y[1] \div y[2]
        r == y[1] % y[2]
        up == 2 * r > y[2] \/ (2 * r = y[2] /\ q % 2 = 1)
    IN  Rat(sign * (IF up THEN q + 1 ELSE q), 100)

\* the dict appended for one asset
RebalanceAction(asset, weight_diff, value) ==
    [asset |-> asset,
     action |-> IF RLt(RZero, weight_diff) THEN "BUY" ELSE "SELL",
     amount_usd |-> Round2(RAbs(RMul(weight_diff, RInt(value)))),
     weight_change |-> Round2(RMul(weight_diff, RInt(100))),
     priority |-> IF RLt(high_priority_threshold, RAbs(weight_diff))
                  THEN "high" ELSE "medium"]

\* the loop "for asset in target_weights", from the i-th asset on
RECURSIVE CollectActions(_, _, _, _)
CollectActions(current_portfolio, target_weights, value, i) ==
    IF i > Len(AssetOrder) THEN <<>>
    ELSE LET asset == AssetOrder[i]
             weight_diff == RSub(target_weights[asset],
                                 current_weight(current_portfolio, asset))
             rest == CollectActions(current_portfolio, target_weights, value, i + 1)
         IN  IF RLt(rebalance_threshold, RAbs(weight_diff))
             THEN <<RebalanceAction(asset, weight_diff, value)>> \o rest
             ELSE rest

\* insert x into a list sorted by |weight_change|, largest first, after its equals
RECURSIVE InsertByChange(_, _)
InsertByChange(x, sorted) ==
    IF sorted = <<>> THEN <<x>>
    ELSE IF RLt(RAbs(Head(sorted).weight_change), RAbs(x.weight_change))
    THEN <<x>> \o sorted
    ELSE <<Head(sorted)>> \o InsertByChange(x, Tail(sorted))

\* mutant: the actions are returned in the order they were appended
SortByChange_Unsorted(actions) == actions

\* sorted(actions, key=lambda x: abs(x["weight_change"]), reverse=True): stable
RECURSIVE SortByChange(_)
SortByChange(actions) ==
    IF actions = <<>> THEN <<>>
    ELSE InsertByChange(actions[Len(actions)],
                        SortByChange(SubSeq(actions, 1, Len(actions) - 1)))

generate_rebalancing_actions(current_portfolio, target_weights, value) ==
    SortByChange(CollectActions(current_portfolio, target_weights, value, 1))

InitPortfolio ==
    /\ portfolio \in [pc : {"start"},
                      strategy_decisions : [Crypto -> Decisions],
                      current_portfolio : CurrentPortfolios,
                      target_weights : {NoWeights},
                      constrained_weights : {NoWeights},
                      rebalancing_actions : {<<>>}]
    /\ vote = Idle /\ ensemble = Idle /\ kelly = Idle
    /\ correlation = Idle /\ rsi = Idle /\ IdleFloor /\ IdleServices
    /\ executor = Idle /\ regime = Idle /\ risk = Idle /\ macd = Idle

OnlyPortfolio ==
    UNCHANGED <<vote, ensemble, kelly, correlation, rsi,
                last_market_data, recent_decisions, trading_decisions, cycle,
                executor, regime, risk, macd,
                simple_cycle, storage, manager, rebalancing>>

\* optimize_portfolio, line 332
CalculateTargetWeights ==
    /\ portfolio.pc = "start"
    /\ OnlyPortfolio
    /\ portfolio' = [portfolio EXCEPT
                        !.pc = "targets",
                        !.target_weights =
                            calculate_target_weights(portfolio.strategy_decisions)]

\* optimize_portfolio, line 335
ApplyRiskConstraints ==
    /\ portfolio.pc = "targets"
    /\ OnlyPortfolio
    /\ portfolio' = [portfolio EXCEPT
                        !.pc = "constrained",
                        !.constrained_weights =
                            apply_risk_constraints(portfolio.target_weights)]

\* optimize_portfolio, lines 338-340
GenerateRebalancingActions ==
    /\ portfolio.pc = "constrained"
    /\ OnlyPortfolio
    /\ portfolio' = [portfolio EXCEPT
                        !.pc = "rebalanced",
                        !.rebalancing_actions =
                            generate_rebalancing_actions(
                                portfolio.current_portfolio,
                                portfolio.constrained_weights,
                                total_value(portfolio.current_portfolio))]

\* target weights are multiples of 1/WeightSteps
WeightSteps == 40

\* every non-negative weight vector on that grid that sums to 1
WeightVectors ==
    {[a \in Assets |->
        IF a = "BTC" THEN Rat(t[1], WeightSteps)
        ELSE IF a = "ETH" THEN Rat(t[2], WeightSteps)
        ELSE IF a = "SOL" THEN Rat(t[3], WeightSteps)
        ELSE Rat(WeightSteps - t[1] - t[2] - t[3], WeightSteps)] :
     t \in {u \in (0..WeightSteps) \X (0..WeightSteps) \X (0..WeightSteps) :
                u[1] + u[2] + u[3] <= WeightSteps}}

HoldAll == [a \in Crypto |-> [action |-> "HOLD", confidence |-> 0]]

\* _apply_risk_constraints is entered with any such target weights
InitRiskConstraints ==
    /\ portfolio \in [pc : {"targets"},
                      strategy_decisions : {HoldAll},
                      current_portfolio : {DefaultPortfolio},
                      target_weights : WeightVectors,
                      constrained_weights : {NoWeights},
                      rebalancing_actions : {<<>>}]
    /\ vote = Idle /\ ensemble = Idle /\ kelly = Idle
    /\ correlation = Idle /\ rsi = Idle /\ IdleFloor /\ IdleServices
    /\ executor = Idle /\ regime = Idle /\ risk = Idle /\ macd = Idle

----------------------------------------------------------------------------
(* StrategyAgent (agents/tier3.py).                                         *)

\* the keys of vote_counts / weighted_scores in insertion order
ActionOrder == <<"BUY", "SELL", "HOLD">>

\* confidences a single vote may carry
VoteConfidences == {0, 30, 60, 90, 100}

\* vote_counts[a]: how many of the votes name a
VoteCount(votes, a) == Cardinality({i \in DOMAIN votes : votes[i] = a})

\* weighted_scores[a]: the confidences of the votes that name a, summed
RECURSIVE WeightedScore(_, _, _, _)
WeightedScore(votes, confidences, a, i) ==
    IF i > Len(votes) THEN RZero
    ELSE RAdd(IF votes[i] = a THEN confidences[i] ELSE RZero,
              WeightedScore(votes, confidences, a, i + 1))

\* mutant: the first key is returned whatever the scores
MaxKey_First(d, best, i) == best

\* max(d, key=d.get): the first key, in insertion order, whose value no
\* other key exceeds
RECURSIVE MaxKey(_, _, _)
MaxKey(d, best, i) ==
    IF i > Len(ActionOrder) THEN best
    ELSE MaxKey(d, IF RLt(d[best], d[ActionOrder[i]]) THEN ActionOrder[i] ELSE best,
                i + 1)

\* mutant: the ensemble confidence is returned as computed
CapConfidence_None(ensemble_confidence) == ensemble_confidence

\* min(ensemble_confidence, 95)
CapConfidence(ensemble_confidence) == RMin(ensemble_confidence, RInt(95))

weighted_vote(votes, confidences) ==
    LET vote_counts == [a \in Actions |-> VoteCount(votes, a)]
        weighted_scores == [a \in Actions |-> WeightedScore(votes, confidences, a, 1)]
        winner == MaxKey(weighted_scores, ActionOrder[1], 2)
        total_confidence ==
            RAdd(RAdd(weighted_scores["BUY"], weighted_scores["SELL"]),
                 weighted_scores["HOLD"])
        winning_confidence == weighted_scores[winner]
        ensemble_confidence ==
            IF RLt(RZero, total_confidence)
            THEN RMul(RDiv(winning_confidence, total_confidence), RInt(100))
            ELSE RInt(50)
    IN  [action |-> winner,
         confidence |-> CapConfidence(ensemble_confidence),
         vote_distribution |-> vote_counts,
         weighted_scores |-> weighted_scores]

NoDecision ==
    [action |-> "NONE", confidence |-> RZero,
     vote_distribution |-> [a \in Actions |-> 0],
     weighted_scores |-> [a \in Actions |-> RZero]]

OnlyVote ==
    UNCHANGED <<portfolio, ensemble, kelly, correlation, rsi,
                last_market_data, recent_decisions, trading_decisions, cycle,
                executor, regime, risk, macd,
                simple_cycle, storage, manager, rebalancing>>

InitVote ==
    /\ vote \in [pc : {"start"},
                 votes : [1..3 -> Actions],
                 confidences : [1..3 -> {RInt(c) : c \in VoteConfidences}],
                 final_decision : {NoDecision}]
    /\ portfolio = Idle /\ ensemble = Idle /\ kelly = Idle
    /\ correlation = Idle /\ rsi = Idle /\ IdleFloor /\ IdleServices
    /\ executor = Idle /\ regime = Idle /\ risk = Idle /\ macd = Idle

\* ensemble_decision_making, line 106
WeightedVote ==
    /\ vote.pc = "start"
    /\ vote' = [vote EXCEPT !.pc = "done",
                            !.final_decision = weighted_vote(vote.votes, vote.confidences)]
    /\ OnlyVote

----------------------------------------------------------------------------
(* StrategyAgent.ensemble_decision_making and its three votes.             *)

\* sentiment scores parse_agent_inputs can produce (randint ranges
\* 60..90, -90..-60 and -20..20)
SentimentScores == {-90, -60, -20, 0, 20, 60, 90}

IntelligenceSignals ==
    [market_trend : {"bullish", "bearish", "neutral"},
     sentiment_score : SentimentScores,
     whale_activity : {"normal", "high"}]

AnalysisSignals ==
    [technical_signal : {"buy", "sell", "neutral"},
     risk_level : {"low", "medium", "high"},
     volatility : {"normal", "high"},
     correlation_opportunities : {"none", "some"}]

\* the outcomes of random.choice([-15, 15])
WhaleChoices == {-15, 15}

\* choice: what random.choice returns if it is called
intelligence_vote(intelligence, choice) ==
    LET trend_score ==
            IF intelligence.market_trend = "bullish" THEN RInt(30)
            ELSE IF intelligence.market_trend = "bearish" THEN RInt(-30)
            ELSE RZero
        with_sentiment ==
            RAdd(trend_score, RMul(RInt(intelligence.sentiment_score), Rat(3, 10)))
        score ==
            IF intelligence.whale_activity = "high"
            THEN RAdd(with_sentiment, RInt(choice))
            ELSE with_sentiment
    IN  [action |-> IF RLt(RInt(20), score) THEN "BUY"
                    ELSE IF RLt(score, RInt(-20)) THEN "SELL"
                    ELSE "HOLD",
         confidence |-> RMin(RAdd(RAbs(score), RInt(40)), RInt(95))]

technical_vote(analysis) ==
    LET signal_score ==
            IF analysis.technical_signal = "buy" THEN RInt(40)
            ELSE IF analysis.technical_signal = "sell" THEN RInt(-40)
            ELSE RZero
        damped ==
            IF analysis.volatility = "high"
            THEN RMul(signal_score, Rat(8, 10))
            ELSE signal_score
        score ==
            IF analysis.correlation_opportunities = "some"
            THEN RAdd(damped, RInt(10))
            ELSE damped
    IN  [action |-> IF RLt(RInt(25), score) THEN "BUY"
                    ELSE IF RLt(score, RInt(-25)) THEN "SELL"
                    ELSE "HOLD",
         confidence |-> RMin(RAdd(RAbs(score), RInt(35)), RInt(95))]

risk_adjusted_vote(analysis) ==
    LET score ==
            IF analysis.risk_level = "high" THEN RInt(-30)
            ELSE IF analysis.risk_level = "low" THEN RInt(15)
            ELSE RZero
    IN  [action |-> IF RLt(RInt(10), score) THEN "BUY"
                    ELSE IF RLt(score, RInt(-20)) THEN "SELL"
                    ELSE "HOLD",
         confidence |-> RMin(RAdd(RInt(60), RAbs(score)), RInt(90))]

\* choices[asset]: what random.choice returns in that asset's pass of the loop
ensemble_decision_making(intelligence, analysis, choices) ==
    [asset \in Crypto |->
        LET intel_vote == intelligence_vote(intelligence, choices[asset])
            tech_vote == technical_vote(analysis)
            risk_vote == risk_adjusted_vote(analysis)
            final_decision ==
                weighted_vote(<<intel_vote.action, tech_vote.action, risk_vote.action>>,
                              <<intel_vote.confidence, tech_vote.confidence,
                                risk_vote.confidence>>)
        IN  [action |-> final_decision.action,
             confidence |-> final_decision.confidence]]

Runs == {1, 2}

NoAssetDecisions == [asset \in Crypto |-> [action |-> "NONE", confidence |-> RZero]]

OnlyEnsemble ==
    UNCHANGED <<portfolio, vote, kelly, correlation, rsi,
                last_market_data, recent_decisions, trading_decisions, cycle,
                executor, regime, risk, macd,
                simple_cycle, storage, manager, rebalancing>>

InitEnsemble ==
    /\ ensemble \in [pc : {[r \in Runs |-> "start"]},
                     intelligence : IntelligenceSignals,
                     analysis : AnalysisSignals,
                     asset_decisions : {[r \in Runs |-> NoAssetDecisions]}]
    /\ portfolio = Idle /\ vote = Idle /\ kelly = Idle
    /\ correlation = Idle /\ rsi = Idle /\ IdleFloor /\ IdleServices
    /\ executor = Idle /\ regime = Idle /\ risk = Idle /\ macd = Idle

\* run r of ensemble_decision_making on the same parsed inputs
EnsembleDecisionMaking(r) ==
    /\ ensemble.pc[r] = "start"
    /\ \E choices \in [Crypto -> WhaleChoices] :
        ensemble' = [ensemble EXCEPT
                        !.pc[r] = "done",
                        !.asset_decisions[r] =
                            ensemble_decision_making(ensemble.intelligence,
                                                     ensemble.analysis, choices)]
    /\ OnlyEnsemble

----------------------------------------------------------------------------
(* AutonomousTradingFloor (core/trading_floor.py): execute_trading_cycle   *)
(* called by concurrent request handlers (main.py); the calls interleave   *)
(* at their awaits.                                                        *)

\* the request handlers that call execute_trading_cycle concurrently
Callers == {1, 2}

\* how many cycles each caller runs
CyclesOf == [c \in Callers |-> 1]

\* how often one action can be voted for in a voting result
MaxVotes == 1

Stages == <<"intelligence", "analysis", "strategy">>

\* what a snapshot holds for an asset: a dict with a price, a bare number
\* (the shape of main.py's mock_market_data), or nothing
EntryShapes == {"dict", "number", "absent"}

\* market data a caller passes in
ClientData ==
    {[a \in Crypto |-> "dict"],
     [a \in Crypto |-> IF a = "ETH" THEN "number" ELSE "dict"],
     [a \in Crypto |-> IF a = "BTC" THEN "number" ELSE "dict"],
     [a \in Crypto |-> "absent"]}

\* what fetch_market_data returns for the three assets: an entry for each
\* (API answer or fallback data), or none (an answer without these coins)
FetchedData == {[a \in Crypto |-> "dict"], [a \in Crypto |-> "absent"]}

\* {**market_data, **real_market_data}
Merge(market_data, real_market_data) ==
    [a \in Crypto |->
        IF real_market_data[a] # "absent" THEN real_market_data[a] ELSE market_data[a]]

NoSnapshot == [owner |-> <<0, 0>>, data |-> [a \in Crypto |-> "absent"]]

\* the voting system's output as _parse_voting_results reads it
VotingResults ==
    [kind : {"tokens", "keywords"}, counts : [Actions -> 0..MaxVotes],
     action : {"HOLD"}, confidence : {70}]
    \cup
    [kind : {"json"}, counts : {[a \in Actions |-> IF a = "HOLD" THEN 1 ELSE 0]},
     action : Actions, confidence : {85}]

SumCounts(counts) == counts["BUY"] + counts["SELL"] + counts["HOLD"]

MaxCount(counts) ==
    CHOOSE n \in {counts[a] : a \in Actions} : \A a \in Actions : counts[a] <= n

\* int(round(100 * k / total)): Python rounds halves to the even neighbour
RoundPercent(k, total) ==
    LET q == (100 * k) \div total
        r2 == 2 * ((100 * k) % total)
    IN  IF r2 < total THEN q
        ELSE IF r2 > total THEN q + 1
        ELSE IF q % 2 = 0 THEN q ELSE q + 1

\* max(vote_breakdown.items(), key=lambda kv: kv[1])[0]
RECURSIVE MajorityKey(_, _, _)
MajorityKey(counts, best, i) ==
    IF i > Len(ActionOrder) THEN best
    ELSE MajorityKey(counts,
                     IF counts[ActionOrder[i]] > counts[best]
                     THEN ActionOrder[i] ELSE best,
                     i + 1)

\* steps 1 to 3 of _parse_voting_results: the consensus action and confidence
CountVotes(voting_results) ==
    LET counts == voting_results.counts
    IN  IF voting_results.kind = "json" /\ SumCounts(counts) > 0
        THEN [consensus_action |-> voting_results.action,
              confidence |-> voting_results.confidence]
        ELSE IF voting_results.kind = "tokens" /\ SumCounts(counts) > 0
        THEN LET consensus_action == MajorityKey(counts, ActionOrder[1], 2)
             IN  [consensus_action |-> consensus_action,
                  confidence |-> RoundPercent(counts[consensus_action],
                                              SumCounts(counts))]
        ELSE LET buy_hits == counts["BUY"]
                 sell_hits == counts["SELL"]
                 hold_hits == counts["HOLD"]
                 larger == IF buy_hits > sell_hits THEN buy_hits ELSE sell_hits
                 total == IF SumCounts(counts) < 1 THEN 1 ELSE SumCounts(counts)
             IN  [consensus_action |->
                      IF hold_hits >= larger THEN "HOLD"
                      ELSE IF buy_hits > sell_hits THEN "BUY"
                      ELSE "SELL",
                  confidence |-> RoundPercent(MaxCount(counts), total)]

Min(a, b) == IF a <= b THEN a ELSE b

\* recent_decisions[-n:], trading_decisions[-n:]
LastN(seq, n) ==
    IF Len(seq) <= n THEN seq ELSE SubSeq(seq, Len(seq) - n + 1, Len(seq))

RecentKept == 15
StoredKept == 50

\* the first asset whose decision cannot be built: its entry in
\* last_market_data has no .get (0 if every decision can be built)
FirstBad(snapshot) ==
    IF \E i \in 1..Len(CryptoAssets) : snapshot.data[CryptoAssets[i]] = "number"
    THEN CHOOSE i \in 1..Len(CryptoAssets) :
            /\ snapshot.data[CryptoAssets[i]] = "number"
            /\ \A j \in 1..(i - 1) : snapshot.data[CryptoAssets[j]] # "number"
    ELSE 0

\* the loop "for asset in [BTC, ETH, SOL]" up to asset number n: the
\* decisions, and the entries appended to recent_decisions
DecisionsUpTo(n, snapshot, consensus_action, confidence) ==
    [i \in 1..n |->
        [asset |-> CryptoAssets[i], action |-> consensus_action,
         confidence |-> Min(confidence, 95),
         price_from |-> snapshot.owner]]

FormattedUpTo(n, consensus_action, confidence, id) ==
    [i \in 1..n |->
        [asset |-> CryptoAssets[i], action |-> consensus_action,
         confidence |-> Min(confidence, 95), cycle |-> id]]

ErrorResult(kind) ==
    [kind |-> kind, status |-> "none", decisions |-> <<>>,
     consensus_action |-> "HOLD", overall_confidence |-> 50,
     market_data |-> <<0, 0>>]

NoResult ==
    [kind |-> "none", status |-> "none", decisions |-> <<>>,
     consensus_action |-> "NONE", overall_confidence |-> 0,
     market_data |-> <<0, 0>>]

\* _parse_voting_results: what it returns and what it leaves in
\* recent_decisions and in the storage; snapshot is self.last_market_data
parse_voting_results(voting_results, snapshot, recent, stored, id) ==
    LET counted == CountVotes(voting_results)
        bad == FirstBad(snapshot)
    IN  IF bad # 0
        THEN [result |-> ErrorResult("parsing_error"),
              recent_decisions |->
                  recent \o FormattedUpTo(bad - 1, counted.consensus_action,
                                          counted.confidence, id),
              trading_decisions |-> stored]
        ELSE [result |->
                  [kind |-> "trading_decision", status |-> "none",
                   decisions |-> DecisionsUpTo(Len(CryptoAssets), snapshot,
                                               counted.consensus_action,
                                               counted.confidence),
                   consensus_action |-> counted.consensus_action,
                   overall_confidence |-> counted.confidence,
                   market_data |-> snapshot.owner],
              recent_decisions |->
                  LastN(recent \o FormattedUpTo(Len(CryptoAssets),
                                                counted.consensus_action,
                                                counted.confidence, id),
                        RecentKept),
              trading_decisions |->
                  LastN(Append(stored, [cycle |-> id,
                                        consensus_action |-> counted.consensus_action]),
                        StoredKept)]

NoResults == [s \in 1..Len(Stages) |-> "none"]

\* no voting result has been parsed
NoVote == [kind |-> "none", counts |-> [a \in Actions |-> 0]]

\* raised: whether a workflow of the cycle has raised; voted: how the voting
\* result that was parsed named the votes (both kept for the claims; the
\* code keeps no such fields)
IdleFrame(left) ==
    [pc |-> "idle", left |-> left, market_data |-> NoSnapshot.data,
     results |-> NoResults, raised |-> FALSE, voted |-> NoVote,
     result |-> NoResult]

\* the identity of the cycle a caller is running
CycleId(c) == <<c, cycle[c].left>>

OnlyFloor ==
    UNCHANGED <<portfolio, vote, ensemble, kelly, correlation, rsi,
                executor, regime, risk, macd,
                simple_cycle, storage, manager, rebalancing>>

InitFloor ==
    /\ last_market_data = NoSnapshot
    /\ recent_decisions = <<>>
    /\ trading_decisions = <<>>
    /\ cycle = [c \in Callers |-> IdleFrame(CyclesOf[c])]
    /\ portfolio = Idle /\ vote = Idle /\ ensemble = Idle /\ kelly = Idle
    /\ correlation = Idle /\ rsi = Idle
    /\ executor = Idle /\ regime = Idle /\ risk = Idle /\ macd = Idle
    /\ IdleServices

\* a handler calls execute_trading_cycle(market_data); the call runs up to
\* "await ...fetch_market_data()"
StartCycle(c) ==
    /\ cycle[c].pc = "idle"
    /\ cycle[c].left > 0
    /\ \E market_data \in ClientData :
        cycle' = [cycle EXCEPT ![c] = [IdleFrame(cycle[c].left) EXCEPT
                                          !.pc = "fetch",
                                          !.market_data = market_data]]
    /\ UNCHANGED <<last_market_data, recent_decisions, trading_decisions>>
    /\ OnlyFloor

\* fetch_market_data returns: last_market_data is set, the intelligence
\* task is built from it and the intelligence workflow is awaited
FetchDone(c) ==
    /\ cycle[c].pc = "fetch"
    /\ \E real_market_data \in FetchedData :
        last_market_data' =
            [owner |-> CycleId(c),
             data |-> Merge(cycle[c].market_data, real_market_data)]
    /\ cycle' = [cycle EXCEPT ![c].pc = "workflow",
                              ![c].market_data = NoSnapshot.data]
    /\ UNCHANGED <<recent_decisions, trading_decisions>>
    /\ OnlyFloor

\* the stage whose workflow the cycle is awaiting (0: none)
Awaited(frame) ==
    IF \E i \in 1..Len(Stages) : frame.results[i] = "none"
    THEN CHOOSE i \in 1..Len(Stages) :
            frame.results[i] = "none" /\ \A j \in 1..(i - 1) : frame.results[j] # "none"
    ELSE 0

\* _run_workflow_async returns: the workflow's result, or the string
\* "Error: ..." if workflow.run raised; the next stage's task is built from
\* it and the next workflow is awaited; after the last one the voting task
\* is built from the three results and the vote is awaited
WorkflowDone(c) ==
    /\ cycle[c].pc = "workflow"
    /\ \E outcome \in {"ok", "Error"} :
        LET i == Awaited(cycle[c])
        IN  cycle' = [cycle EXCEPT
                        ![c].results = IF i = Len(Stages) THEN NoResults
                                       ELSE [@ EXCEPT ![i] = outcome],
                        ![c].raised = @ \/ outcome = "Error",
                        ![c].pc = IF i = Len(Stages) THEN "vote" ELSE "workflow"]
    /\ UNCHANGED <<last_market_data, recent_decisions, trading_decisions>>
    /\ OnlyFloor

\* _run_democratic_vote: voting_system.run raised
VoteRaised(c) ==
    /\ cycle[c].pc = "vote"
    /\ cycle' = [cycle EXCEPT ![c].pc = "done",
                              ![c].result = ErrorResult("voting_error")]
    /\ UNCHANGED <<last_market_data, recent_decisions, trading_decisions>>
    /\ OnlyFloor

\* _run_democratic_vote: voting_system.run returned and
\* _parse_voting_results ran (it has no await of its own)
VoteDone(c) ==
    /\ cycle[c].pc = "vote"
    /\ \E voting_results \in VotingResults :
        LET parsed == parse_voting_results(voting_results, last_market_data,
                                           recent_decisions, trading_decisions,
                                           CycleId(c))
        IN  /\ cycle' = [cycle EXCEPT
                            ![c].pc = "done",
                            ![c].voted = [kind |-> voting_results.kind,
                                          counts |-> voting_results.counts],
                            ![c].result = parsed.result]
            /\ recent_decisions' = parsed.recent_decisions
            /\ trading_decisions' = parsed.trading_decisions
    /\ UNCHANGED last_market_data
    /\ OnlyFloor

\* execute_trading_cycle has returned; the handler broadcasts the result and
\* waits for the next message
Broadcast(c) ==
    /\ cycle[c].pc = "done"
    /\ cycle' = [cycle EXCEPT ![c] = IdleFrame(cycle[c].left - 1)]
    /\ UNCHANGED <<last_market_data, recent_decisions, trading_decisions>>
    /\ OnlyFloor

\* how many cycles a caller has completed before the ones that are followed
EarlierCycles == 5

\* a voting result and a snapshot of such an earlier cycle
EarlierVote ==
    [kind |-> "json", counts |-> [a \in Actions |-> IF a = "HOLD" THEN 1 ELSE 0],
     action |-> "HOLD", confidence |-> 85]

EarlierSnapshot(n) ==
    [owner |-> <<1, CyclesOf[1] + EarlierCycles - n + 1>>,
     data |-> [a \in Crypto |-> "dict"]]

\* what recent_decisions and the storage hold after caller 1 has completed
\* n cycles one after the other, each with EarlierVote
RECURSIVE AfterCycles(_)
AfterCycles(n) ==
    IF n = 0 THEN [recent_decisions |-> <<>>, trading_decisions |-> <<>>]
    ELSE LET before == AfterCycles(n - 1)
             parsed == parse_voting_results(EarlierVote, EarlierSnapshot(n),
                                            before.recent_decisions,
                                            before.trading_decisions,
                                            EarlierSnapshot(n).owner)
         IN  [recent_decisions |-> parsed.recent_decisions,
              trading_decisions |-> parsed.trading_decisions]

\* the trading floor after EarlierCycles completed cycles
InitLongRunFloor ==
    /\ last_market_data = EarlierSnapshot(EarlierCycles)
    /\ recent_decisions = AfterCycles(EarlierCycles).recent_decisions
    /\ trading_decisions = AfterCycles(EarlierCycles).trading_decisions
    /\ cycle = [c \in Callers |-> IdleFrame(CyclesOf[c])]
    /\ portfolio = Idle /\ vote = Idle /\ ensemble = Idle /\ kelly = Idle
    /\ correlation = Idle /\ rsi = Idle
    /\ executor = Idle /\ regime = Idle /\ risk = Idle /\ macd = Idle
    /\ IdleServices

----------------------------------------------------------------------------
(* RiskCalculatorAgent.kelly_criterion (agents/tier2.py).                  *)

WinRates == {Rat(0, 1), Rat(1, 4), Rat(1, 2), Rat(3, 4), Rat(1, 1)}
AvgWins == {Rat(0, 1), Rat(1, 2), Rat(1, 1), Rat(2, 1), Rat(3, 1)}
AvgLosses == {Rat(-1, 1), Rat(0, 1), Rat(1, 2), Rat(1, 1), Rat(2, 1)}

Returned(value) == [status |-> "returned", value |-> value]
Raised(error) == [status |-> error, value |-> RZero]

kelly_criterion(win_rate, avg_win, avg_loss) ==
    IF RLe(avg_loss, RZero) THEN Returned(RZero)
    ELSE LET b == RDiv(avg_win, avg_loss)
             p_ == win_rate
             q == RSub(ROne, p_)
         IN  IF b = RZero THEN Raised("ZeroDivisionError")
             ELSE LET kelly_percent == RDiv(RSub(RMul(b, p_), q), b)
                  IN  Returned(RMax(RZero, RMin(kelly_percent, Rat(25, 100))))

OnlyKelly ==
    UNCHANGED <<portfolio, vote, ensemble, correlation, rsi,
                last_market_data, recent_decisions, trading_decisions, cycle,
                executor, regime, risk, macd,
                simple_cycle, storage, manager, rebalancing>>

InitKelly ==
    /\ kelly \in [pc : {"start"}, win_rate : WinRates, avg_win : AvgWins,
                  avg_loss : AvgLosses, result : {Raised("none")}]
    /\ portfolio = Idle /\ vote = Idle /\ ensemble = Idle
    /\ correlation = Idle /\ rsi = Idle /\ IdleFloor /\ IdleServices
    /\ executor = Idle /\ regime = Idle /\ risk = Idle /\ macd = Idle

KellyCriterion ==
    /\ kelly.pc = "start"
    /\ kelly' = [kelly EXCEPT
                    !.pc = "done",
                    !.result = kelly_criterion(kelly.win_rate, kelly.avg_win,
                                               kelly.avg_loss)]
    /\ OnlyKelly

----------------------------------------------------------------------------
(* TechnicalAnalystAgent.calculate_rsi (agents/tier2.py).                  *)

\* the longest price series and the largest period tried
MaxPrices == 4
MaxPeriod == 3
PriceValues == {1, 2, 3}

PriceSeries == UNION {[1..n -> PriceValues] : n \in 1..MaxPrices}

\* gains[i], losses[i] for the change from prices[i] to prices[i+1]
Gain(prices, i) ==
    IF prices[i + 1] - prices[i] > 0 THEN prices[i + 1] - prices[i] ELSE 0
Loss(prices, i) ==
    IF prices[i + 1] - prices[i] > 0 THEN 0 ELSE Abs(prices[i + 1] - prices[i])

\* sum(gains[from..to]), sum(losses[from..to])
RECURSIVE SumGains(_, _, _)
SumGains(prices, from, to) ==
    IF from > to THEN 0 ELSE Gain(prices, from) + SumGains(prices, from + 1, to)

RECURSIVE SumLosses(_, _, _)
SumLosses(prices, from, to) ==
    IF from > to THEN 0 ELSE Loss(prices, from) + SumLosses(prices, from + 1, to)

\* mutant: the 1 + of the denominator is dropped
RSIValue_NoOnePlus(avg_gain, avg_loss) ==
    IF avg_loss = RZero THEN RInt(100)
    ELSE LET rs == RDiv(avg_gain, avg_loss)
         IN  IF rs = RZero THEN RInt(100)
             ELSE RSub(RInt(100), RDiv(RInt(100), rs))

\* lines 40-45
RSIValue(avg_gain, avg_loss) ==
    IF avg_loss = RZero THEN RInt(100)
    ELSE LET rs == RDiv(avg_gain, avg_loss)
         IN  RSub(RInt(100), RDiv(RInt(100), RAdd(ROne, rs)))

calculate_rsi(prices, period) ==
    IF Len(prices) < period + 1 THEN RInt(50)
    ELSE LET changes == Len(prices) - 1
             avg_gain == Rat(SumGains(prices, changes - period + 1, changes), period)
             avg_loss == Rat(SumLosses(prices, changes - period + 1, changes), period)
         IN  RSIValue(avg_gain, avg_loss)

OnlyRsi ==
    UNCHANGED <<portfolio, vote, ensemble, kelly, correlation,
                last_market_data, recent_decisions, trading_decisions, cycle,
                executor, regime, risk, macd,
                simple_cycle, storage, manager, rebalancing>>

InitRsi ==
    /\ rsi \in [pc : {"start"}, prices : PriceSeries, period : 1..MaxPeriod,
                result : {RZero}]
    /\ portfolio = Idle /\ vote = Idle /\ ensemble = Idle /\ kelly = Idle
    /\ correlation = Idle /\ IdleFloor /\ IdleServices
    /\ executor = Idle /\ regime = Idle /\ risk = Idle /\ macd = Idle

CalculateRsi ==
    /\ rsi.pc = "start"
    /\ rsi' = [rsi EXCEPT !.pc = "done",
                          !.result = calculate_rsi(rsi.prices, rsi.period)]
    /\ OnlyRsi

----------------------------------------------------------------------------
(* Binary floating point, round to nearest even: <<m, e>> stands for       *)
(* m * 2^e with m = 0 or 2^(MantBits-1) <= |m| < 2^MantBits.  Python       *)
(* floats have 53 mantissa bits; the model keeps the rounding rule and     *)
(* narrows the mantissa.  The exponent is unbounded (no overflow, no       *)
(* underflow).                                                             *)

MantBits == 4

RECURSIVE Pow2(_)
Pow2(k) == IF k = 0 THEN 1 ELSE 2 * Pow2(k - 1)

\* the number of bits of n >= 0
RECURSIVE BitLen(_)
BitLen(n) == IF n = 0 THEN 0 ELSE 1 + BitLen(n \div 2)

FZero == <<0, 0>>

\* the float nearest to n * 2^e
FRound(n, e) ==
    IF n = 0 THEN FZero
    ELSE LET sign == IF n < 0 THEN -1 ELSE 1
             a == Abs(n)
             len == BitLen(a)
         IN  IF len <= MantBits
             THEN <<sign * a * Pow2(MantBits - len), e - (MantBits - len)>>
             ELSE LET k == len - MantBits
                      q == a \div Pow2(k)
                      r == a % Pow2(k)
                      half == Pow2(k - 1)
                      up == r > half \/ (r = half /\ q % 2 = 1)
                      q1 == IF up THEN q + 1 ELSE q
                  IN  IF q1 = Pow2(MantBits)
                      THEN <<sign * Pow2(MantBits - 1), e + k + 1>>
                      ELSE <<sign * q1, e + k>>

FInt(n) == FRound(n, 0)
FNeg(x) == IF x[1] = 0 THEN FZero ELSE <<-x[1], x[2]>>

FAdd(x, y) ==
    IF x[1] = 0 THEN y
    ELSE IF y[1] = 0 THEN x
    ELSE IF x[2] - y[2] > MantBits + 2 THEN x
    ELSE IF y[2] - x[2] > MantBits + 2 THEN y
    ELSE LET lo == IF x[2] < y[2] THEN x[2] ELSE y[2]
         IN  FRound(x[1] * Pow2(x[2] - lo) + y[1] * Pow2(y[2] - lo), lo)

FSub(x, y) == FAdd(x, FNeg(y))

FMul(x, y) == FRound(x[1] * y[1], x[2] + y[2])

\* x / y for y # 0: the quotient to MantBits + 2 bits and a sticky bit
FDiv(x, y) ==
    IF x[1] = 0 THEN FZero
    ELSE LET sign == IF (x[1] < 0) # (y[1] < 0) THEN -1 ELSE 1
             num == Abs(x[1]) * Pow2(MantBits + 2)
             q == num \div Abs(y[1])
             sticky == IF num % Abs(y[1]) = 0 THEN 0 ELSE 1
         IN  FRound(sign * (2 * q + sticky), x[2] - y[2] - (MantBits + 2) - 1)

\* x ** 0.5 for x >= 0
FSqrt(x) ==
    IF x[1] = 0 THEN FZero
    ELSE LET s == IF (x[2] - (MantBits + 2)) % 2 = 0 THEN MantBits + 2 ELSE MantBits + 3
             n == x[1] * Pow2(s)
             r == CHOOSE k \in 0..Pow2(MantBits + 2) : k * k <= n /\ n < (k + 1) * (k + 1)
             sticky == IF r * r = n THEN 0 ELSE 1
         IN  FRound(2 * r + sticky, ((x[2] - s) \div 2) - 1)

FLt(x, y) == FSub(x, y)[1] < 0

----------------------------------------------------------------------------
(* CorrelationAgent.calculate_correlation (agents/tier2.py).               *)

\* the longest return series
MaxReturns == 3

\* daily returns: 0, 13/128 (0.1 to four bits), 14/128 and -14/128
ReturnValues == {FZero, FRound(13, -7), FRound(14, -7), FRound(-14, -7)}

ReturnSeries == UNION {[1..n -> ReturnValues] : n \in 0..MaxReturns}

\* sum(returns): the running total is rounded after every addition
RECURSIVE FSum(_, _, _)
FSum(terms, i, acc) ==
    IF i > Len(terms) THEN acc ELSE FSum(terms, i + 1, FAdd(acc, terms[i]))

calculate_correlation(returns1, returns2) ==
    IF Len(returns1) # Len(returns2) \/ Len(returns1) < 2 THEN FZero
    ELSE LET n == Len(returns1)
             mean1 == FDiv(FSum(returns1, 1, FZero), FInt(n))
             mean2 == FDiv(FSum(returns2, 1, FZero), FInt(n))
             dev1 == [i \in 1..n |-> FSub(returns1[i], mean1)]
             dev2 == [i \in 1..n |-> FSub(returns2[i], mean2)]
             numerator == FSum([i \in 1..n |-> FMul(dev1[i], dev2[i])], 1, FZero)
             sum_sq1 == FSum([i \in 1..n |-> FMul(dev1[i], dev1[i])], 1, FZero)
             sum_sq2 == FSum([i \in 1..n |-> FMul(dev2[i], dev2[i])], 1, FZero)
             denominator == FSqrt(FMul(sum_sq1, sum_sq2))
         IN  IF FLt(FZero, denominator) THEN FDiv(numerator, denominator)
             ELSE FZero

OnlyCorrelation ==
    UNCHANGED <<portfolio, vote, ensemble, kelly, rsi,
                last_market_data, recent_decisions, trading_decisions, cycle,
                executor, regime, risk, macd,
                simple_cycle, storage, manager, rebalancing>>

InitCorrelation ==
    /\ correlation \in [pc : {"start"}, returns1 : ReturnSeries,
                        returns2 : ReturnSeries, result : {FZero}]
    /\ portfolio = Idle /\ vote = Idle /\ ensemble = Idle /\ kelly = Idle
    /\ rsi = Idle /\ IdleFloor /\ IdleServices
    /\ executor = Idle /\ regime = Idle /\ risk = Idle /\ macd = Idle

CalculateCorrelation ==
    /\ correlation.pc = "start"
    /\ correlation' = [correlation EXCEPT
                          !.pc = "done",
                          !.result = calculate_correlation(correlation.returns1,
                                                           correlation.returns2)]
    /\ OnlyCorrelation

----------------------------------------------------------------------------
(* ExecutorAgent._plan_trade_execution and the helpers it calls            *)
(* (agents/tier3.py).                                                      *)

execution_algorithms == <<"TWAP", "VWAP", "Market", "Limit">>
Algorithms == {execution_algorithms[i] : i \in DOMAIN execution_algorithms}

\* amount_usd of a rebalancing action, in dollars
TradeSizes ==
    {RInt(n) : n \in {5000, 9500, 10000, 49500, 50000, 60000, 74500, 75000,
                      99500, 100000, 100500, 200000, 1000000, 1000500, 2000000}}

\* a key of market_conditions holds a value or is missing
MarketConditions ==
    [volatility : {"normal", "high", "absent"},
     liquidity : {"good", "poor", "absent"}]

\* market_conditions.get(key, default)
GetCondition(market_conditions, key, default) ==
    IF market_conditions[key] = "absent" THEN default ELSE market_conditions[key]

\* mutant: for a large trade high volatility is tested before poor liquidity
choose_execution_algorithm_VolatilityFirst(trade_size, market_conditions) ==
    LET volatility == GetCondition(market_conditions, "volatility", "normal")
    IN  IF RLt(trade_size, RInt(10000)) THEN "Market"
        ELSE IF RLt(trade_size, RInt(100000))
        THEN IF volatility = "high" THEN "TWAP" ELSE "Limit"
        ELSE IF volatility = "high" THEN "VWAP"
        ELSE "TWAP"

choose_execution_algorithm(trade_size, market_conditions) ==
    LET volatility == GetCondition(market_conditions, "volatility", "normal")
        liquidity == GetCondition(market_conditions, "liquidity", "good")
    IN  IF RLt(trade_size, RInt(10000)) THEN "Market"
        ELSE IF RLt(trade_size, RInt(100000))
        THEN IF volatility = "high" THEN "TWAP" ELSE "Limit"
        ELSE IF liquidity = "poor" THEN "TWAP"
        ELSE IF volatility = "high" THEN "VWAP"
        ELSE "TWAP"

base_slippage(asset) ==
    IF asset = "BTC" THEN Rat(5, 10000)
    ELSE IF asset = "ETH" THEN Rat(8, 10000)
    ELSE IF asset = "SOL" THEN Rat(15, 10000)
    ELSE Rat(1, 10000)

estimate_slippage(trade_size, asset, market_conditions) ==
    LET size_multiplier ==
            RAdd(ROne, RMul(RDiv(trade_size, RInt(1000000)), Rat(1, 2)))
        volatility == GetCondition(market_conditions, "volatility", "normal")
        liquidity == GetCondition(market_conditions, "liquidity", "good")
        by_volatility == IF volatility = "high" THEN Rat(3, 2) ELSE ROne
        condition_multiplier ==
            IF liquidity = "poor" THEN RMul(by_volatility, RInt(2)) ELSE by_volatility
    IN  RMul(RMul(base_slippage(asset), size_multiplier), condition_multiplier)

fee_rates(asset) ==
    IF asset = "BTC" THEN Rat(1, 1000)
    ELSE IF asset = "ETH" THEN Rat(1, 1000)
    ELSE IF asset = "SOL" THEN Rat(15, 10000)
    ELSE Rat(1, 10000)

estimate_fees(trade_size, asset) == RMul(trade_size, fee_rates(asset))

base_durations(algorithm) ==
    IF algorithm = "Market" THEN 1
    ELSE IF algorithm = "Limit" THEN 5
    ELSE IF algorithm = "TWAP" THEN 30
    ELSE 20

\* the elif is tested only when trade_size > 100000 is false
estimate_duration(trade_size, algorithm) ==
    LET base_duration == base_durations(algorithm)
    IN  IF RLt(RInt(100000), trade_size) THEN base_duration * 2
        ELSE IF RLt(RInt(1000000), trade_size) THEN base_duration * 4
        ELSE base_duration

max_order_size == RInt(25000)
single_order_below == RInt(50000)

\* int(x) for x >= 0
Floor(x) == x[1] \div x[2]

\* mutant: every split order has the maximal size
calculate_order_splits_MaxSize(trade_size, algorithm) ==
    IF algorithm = "Market" \/ RLt(trade_size, single_order_below)
    THEN <<[order_size |-> trade_size,
            delay_minutes |-> 0,
            order_type |-> IF algorithm = "Market" THEN "market" ELSE "limit"]>>
    ELSE LET floor == Floor(RDiv(trade_size, max_order_size))
             num_orders == IF floor < 1 THEN 1 ELSE floor
         IN  [k \in 1..num_orders |->
                [order_size |-> max_order_size,
                 delay_minutes |-> IF algorithm = "Market" THEN 0 ELSE (k - 1) * 2,
                 order_type |-> IF algorithm # "Market" THEN "limit" ELSE "market"]]

calculate_order_splits(trade_size, algorithm) ==
    IF algorithm = "Market" \/ RLt(trade_size, single_order_below)
    THEN <<[order_size |-> trade_size,
            delay_minutes |-> 0,
            order_type |-> IF algorithm = "Market" THEN "market" ELSE "limit"]>>
    ELSE LET floor == Floor(RDiv(trade_size, max_order_size))
             num_orders == IF floor < 1 THEN 1 ELSE floor
             order_size == RDiv(trade_size, RInt(num_orders))
         IN  [k \in 1..num_orders |->
                [order_size |-> order_size,
                 delay_minutes |-> IF algorithm = "Market" THEN 0 ELSE (k - 1) * 2,
                 order_type |-> IF algorithm # "Market" THEN "limit" ELSE "market"]]

OnlyExecutor ==
    UNCHANGED <<portfolio, vote, ensemble, kelly, correlation, rsi,
                last_market_data, recent_decisions, trading_decisions, cycle,
                regime, risk, macd,
                simple_cycle, storage, manager, rebalancing>>

\* _plan_trade_execution is entered with an action and the market conditions
\* (pc "start"); the helpers that take an algorithm are also callable with
\* any of the four (pc "chosen")
InitExecutor ==
    /\ executor \in
         [pc : {"start"}, asset : Assets, trade_size : TradeSizes,
          market_conditions : MarketConditions, algorithm : {"none"},
          estimated_slippage : {RZero}, estimated_fees : {RZero},
          estimated_duration : {0}, order_splits : {<<>>}]
         \cup
         [pc : {"chosen"}, asset : {"BTC"}, trade_size : TradeSizes,
          market_conditions : {[volatility |-> "normal", liquidity |-> "good"]},
          algorithm : Algorithms,
          estimated_slippage : {RZero}, estimated_fees : {RZero},
          estimated_duration : {0}, order_splits : {<<>>}]
    /\ portfolio = Idle /\ vote = Idle /\ ensemble = Idle /\ kelly = Idle
    /\ correlation = Idle /\ rsi = Idle /\ IdleFloor /\ IdleServices
    /\ regime = Idle /\ risk = Idle /\ macd = Idle

\* line 604
ChooseExecutionAlgorithm ==
    /\ executor.pc = "start"
    /\ executor' = [executor EXCEPT
                       !.pc = "chosen",
                       !.algorithm = choose_execution_algorithm(
                                         executor.trade_size,
                                         executor.market_conditions)]
    /\ OnlyExecutor

\* lines 607-608
EstimateCosts ==
    /\ executor.pc = "chosen"
    /\ executor' = [executor EXCEPT
                       !.pc = "costed",
                       !.estimated_slippage = estimate_slippage(
                                                  executor.trade_size,
                                                  executor.asset,
                                                  executor.market_conditions),
                       !.estimated_fees = estimate_fees(executor.trade_size,
                                                        executor.asset)]
    /\ OnlyExecutor

\* line 609
EstimateDuration ==
    /\ executor.pc = "costed"
    /\ executor' = [executor EXCEPT
                       !.pc = "timed",
                       !.estimated_duration = estimate_duration(
                                                  executor.trade_size,
                                                  executor.algorithm)]
    /\ OnlyExecutor

\* line 612
CalculateOrderSplits ==
    /\ executor.pc = "timed"
    /\ executor' = [executor EXCEPT
                       !.pc = "planned",
                       !.order_splits = calculate_order_splits(
                                            executor.trade_size,
                                            executor.algorithm)]
    /\ OnlyExecutor

----------------------------------------------------------------------------
(* ExecutorAgent.execute_rebalancing (agents/tier3.py), called with the    *)
(* market conditions.                                                      *)

\* how many rebalancing actions one call carries at most
MaxActions == 2

\* amount_usd of the actions passed to execute_rebalancing
RebalanceAmounts == {RInt(200000), RInt(400000)}

RebalancingAction ==
    [asset : Crypto, amount_usd : RebalanceAmounts, action : {"BUY", "SELL"},
     priority : {"high", "medium"}]

\* the lists of at most MaxActions rebalancing actions
ActionLists ==
    UNION {[1..n -> RebalancingAction] : n \in 0..MaxActions}

plan_trade_execution(action, market_conditions) ==
    LET asset == action.asset
        trade_size == action.amount_usd
        algorithm == choose_execution_algorithm(trade_size, market_conditions)
    IN  [asset |-> asset,
         action |-> action.action,
         total_amount |-> trade_size,
         algorithm |-> algorithm,
         estimated_slippage |-> estimate_slippage(trade_size, asset,
                                                  market_conditions),
         estimated_fees |-> estimate_fees(trade_size, asset),
         estimated_duration |-> estimate_duration(trade_size, algorithm),
         order_splits |-> calculate_order_splits(trade_size, algorithm),
         execution_priority |-> action.priority]

\* sum(trade[field] for trade in execution_plan), over its first n trades
RECURSIVE SumField(_, _, _)
SumField(execution_plan, field, n) ==
    IF n = 0 THEN RZero
    ELSE RAdd(SumField(execution_plan, field, n - 1), execution_plan[n][field])

\* the largest estimated_duration of the first n trades (0 if none)
RECURSIVE MaxDuration(_, _)
MaxDuration(execution_plan, n) ==
    IF n = 0 THEN 0
    ELSE LET rest == MaxDuration(execution_plan, n - 1)
         IN  IF execution_plan[n].estimated_duration > rest
             THEN execution_plan[n].estimated_duration ELSE rest

\* lines 561-586 of execute_rebalancing
execution_summary(rebalancing_actions, execution_plan) ==
    LET estimated_slippage ==
            SumField(execution_plan, "estimated_slippage", Len(execution_plan))
    IN  [total_trades |-> Len(rebalancing_actions),
         estimated_slippage |-> estimated_slippage,
         estimated_fees |->
             SumField(execution_plan, "estimated_fees", Len(execution_plan)),
         execution_time_estimate |->
             MaxDuration(execution_plan, Len(execution_plan)),
         risk_assessment |->
             IF RLt(Rat(5, 1000), estimated_slippage) THEN "high"
             ELSE IF RLt(Rat(2, 1000), estimated_slippage) THEN "medium"
             ELSE "low"]

NoImpact ==
    [total_execution_cost |-> RZero, total_slippage |-> RZero,
     total_fees |-> RZero, cost_percentage |-> RZero,
     impact_assessment |-> "none"]

\* _analyze_market_impact without the per-asset breakdown; the quotient
\* total_cost / sum(total_amount) is taken with the factor 100 applied first
analyze_market_impact(execution_plan) ==
    LET n == Len(execution_plan)
        total_slippage == SumField(execution_plan, "estimated_slippage", n)
        total_fees == SumField(execution_plan, "estimated_fees", n)
        total_cost == RAdd(total_slippage, total_fees)
        total_amount == SumField(execution_plan, "total_amount", n)
    IN  IF total_amount = RZero
        THEN [status |-> "ZeroDivisionError", value |-> NoImpact]
        ELSE [status |-> "returned",
              value |->
                [total_execution_cost |-> total_cost,
                 total_slippage |-> total_slippage,
                 total_fees |-> total_fees,
                 cost_percentage |->
                     RDiv(RMul(total_cost, RInt(100)), total_amount),
                 impact_assessment |->
                     IF RLt(total_cost, RInt(1000)) THEN "LOW"
                     ELSE IF RLt(total_cost, RInt(5000)) THEN "MEDIUM"
                     ELSE "HIGH"]]

NoSummary ==
    [total_trades |-> 0, estimated_slippage |-> RZero, estimated_fees |-> RZero,
     execution_time_estimate |-> 0, risk_assessment |-> "none"]

OnlyRebalancing ==
    UNCHANGED <<portfolio, vote, ensemble, kelly, correlation, rsi,
                last_market_data, recent_decisions, trading_decisions, cycle,
                executor, regime, risk, macd,
                simple_cycle, storage, manager>>

InitRebalancing ==
    /\ rebalancing \in
         [pc : {"start"}, rebalancing_actions : ActionLists,
          market_conditions : MarketConditions, execution_plan : {<<>>},
          execution_summary : {NoSummary}, status : {"none"},
          market_impact_analysis : {NoImpact}]
    /\ portfolio = Idle /\ vote = Idle /\ ensemble = Idle /\ kelly = Idle
    /\ correlation = Idle /\ rsi = Idle /\ IdleFloor
    /\ executor = Idle /\ regime = Idle /\ risk = Idle /\ macd = Idle
    /\ simple_cycle = Idle /\ storage = Idle /\ manager = Idle

\* lines 561-586: every action is planned and the summary is built
PlanRebalancing ==
    /\ rebalancing.pc = "start"
    /\ LET execution_plan ==
               [i \in 1..Len(rebalancing.rebalancing_actions) |->
                   plan_trade_execution(rebalancing.rebalancing_actions[i],
                                        rebalancing.market_conditions)]
       IN  rebalancing' =
               [rebalancing EXCEPT
                   !.pc = "planned",
                   !.execution_plan = execution_plan,
                   !.execution_summary =
                       execution_summary(rebalancing.rebalancing_actions,
                                         execution_plan)]
    /\ OnlyRebalancing

\* lines 588-593: the result is built, which calls _analyze_market_impact;
\* what that raises leaves execute_rebalancing
ReturnRebalancing ==
    /\ rebalancing.pc = "planned"
    /\ LET impact == analyze_market_impact(rebalancing.execution_plan)
       IN  rebalancing' =
               [rebalancing EXCEPT
                   !.pc = "done",
                   !.status = impact.status,
                   !.market_impact_analysis = impact.value]
    /\ OnlyRebalancing

----------------------------------------------------------------------------
(* CorrelationAgent.assess_market_regime (agents/tier2.py).                *)

\* the keys of the correlations dict, in insertion order
Pairs == <<"BTC-ETH", "BTC-SOL", "ETH-SOL">>

\* coefficients as analyze_correlations stores them (rounded to 3 places)
Coefficients ==
    {Rat(c, 10) : c \in {-9, -5, -1, 0, 1, 3, 4, 5, 7, 8, 10}}

\* the matrix holds the first n pairs, n >= 1
CorrelationMatrices == UNION {[1..n -> Coefficients] : n \in 1..Len(Pairs)}

\* sum(abs(corr) for corr in correlations.values())
RECURSIVE SumAbs(_, _)
SumAbs(correlations, i) ==
    IF i > Len(correlations) THEN RZero
    ELSE RAdd(RAbs(correlations[i]), SumAbs(correlations, i + 1))

assess_market_regime(correlations) ==
    LET avg_correlation == RDiv(SumAbs(correlations, 1), RInt(Len(correlations)))
    IN  IF RLt(Rat(7, 10), avg_correlation) THEN "HIGH_CORRELATION"
        ELSE IF RLt(Rat(4, 10), avg_correlation) THEN "MODERATE_CORRELATION"
        ELSE "LOW_CORRELATION"

OnlyRegime ==
    UNCHANGED <<portfolio, vote, ensemble, kelly, correlation, rsi,
                last_market_data, recent_decisions, trading_decisions, cycle,
                executor, risk, macd,
                simple_cycle, storage, manager, rebalancing>>

InitRegime ==
    /\ regime \in [pc : {"start"}, correlations : CorrelationMatrices,
                   market_regime : {"none"}]
    /\ portfolio = Idle /\ vote = Idle /\ ensemble = Idle /\ kelly = Idle
    /\ correlation = Idle /\ rsi = Idle /\ IdleFloor /\ IdleServices
    /\ executor = Idle /\ risk = Idle /\ macd = Idle

\* analyze_correlations, line 387
AssessMarketRegime ==
    /\ regime.pc = "start"
    /\ regime' = [regime EXCEPT
                     !.pc = "done",
                     !.market_regime = assess_market_regime(regime.correlations)]
    /\ OnlyRegime

----------------------------------------------------------------------------
(* RiskCalculatorAgent.calculate_var and calculate_sharpe_ratio            *)
(* (agents/tier2.py), on the floats defined above.                         *)

\* the float nearest to n / d, for n >= 0 and d > 0 (a literal such as 0.02)
FRat(n, d) ==
    IF n = 0 THEN FZero
    ELSE LET shift == MantBits + 2 + BitLen(d)
             q == (n * Pow2(shift)) \div d
             sticky == IF (n * Pow2(shift)) % d = 0 THEN 0 ELSE 1
         IN  FRound(2 * q + sticky, -shift - 1)

\* int(x) for a float x >= 0
FTrunc(x) ==
    IF x[2] >= 0 THEN x[1] * Pow2(x[2]) ELSE x[1] \div Pow2(-x[2])

\* the longest return series given to the risk engines
MaxRiskReturns == 6

\* daily returns: 0, 3/128 and -1/64
RiskReturnValues == {FZero, FRound(3, -7), FRound(-1, -6)}

RiskReturnSeries == UNION {[1..n -> RiskReturnValues] : n \in 0..MaxRiskReturns}

\* insert x into an ascending list
RECURSIVE FInsert(_, _)
FInsert(x, sorted) ==
    IF sorted = <<>> THEN <<x>>
    ELSE IF FLt(x, Head(sorted)) THEN <<x>> \o sorted
    ELSE <<Head(sorted)>> \o FInsert(x, Tail(sorted))

\* sorted(returns)
RECURSIVE FSorted(_)
FSorted(returns) ==
    IF returns = <<>> THEN <<>>
    ELSE FInsert(returns[Len(returns)],
                 FSorted(SubSeq(returns, 1, Len(returns) - 1)))

confidence_level == FRat(5, 100)

calculate_var(returns) ==
    IF returns = <<>> THEN FZero
    ELSE LET sorted_returns == FSorted(returns)
             index == FTrunc(FMul(FInt(Len(sorted_returns)), confidence_level))
         IN  IF index < Len(sorted_returns) THEN sorted_returns[index + 1]
             ELSE sorted_returns[Len(sorted_returns)]

risk_free_rate == FRat(2, 100)
trading_days == FInt(252)

\* mutant: a single return is divided by the deviation of its own excess
calculate_sharpe_ratio_NoLengthCheck(returns) ==
    IF returns = <<>> THEN FZero
    ELSE LET daily == FDiv(risk_free_rate, trading_days)
             n == Len(returns)
             excess_returns == [i \in 1..n |-> FSub(returns[i], daily)]
             mean_return == FDiv(FSum(excess_returns, 1, FZero), FInt(n))
         IN  IF n < 2 THEN mean_return
             ELSE LET squares == [i \in 1..n |->
                                     FMul(FSub(excess_returns[i], mean_return),
                                          FSub(excess_returns[i], mean_return))]
                      variance == FDiv(FSum(squares, 1, FZero), FInt(n - 1))
                      std_dev == FSqrt(variance)
                  IN  IF FLt(FZero, std_dev) THEN FDiv(mean_return, std_dev)
                      ELSE FZero

calculate_sharpe_ratio(returns) ==
    IF returns = <<>> THEN FZero
    ELSE LET daily == FDiv(risk_free_rate, trading_days)
             n == Len(returns)
             excess_returns == [i \in 1..n |-> FSub(returns[i], daily)]
             mean_return == FDiv(FSum(excess_returns, 1, FZero), FInt(n))
         IN  IF n < 2 THEN FZero
             ELSE LET squares == [i \in 1..n |->
                                     FMul(FSub(excess_returns[i], mean_return),
                                          FSub(excess_returns[i], mean_return))]
                      variance == FDiv(FSum(squares, 1, FZero), FInt(n - 1))
                      std_dev == FSqrt(variance)
                  IN  IF FLt(FZero, std_dev) THEN FDiv(mean_return, std_dev)
                      ELSE FZero

\* the calls already made on the series: "var", "sharpe"
NoRiskCalls == {}

OnlyRisk ==
    UNCHANGED <<portfolio, vote, ensemble, kelly, correlation, rsi,
                last_market_data, recent_decisions, trading_decisions, cycle,
                executor, regime, macd,
                simple_cycle, storage, manager, rebalancing>>

\* calculate_var(returns)
CalculateVar ==
    /\ risk.pc = "active"
    /\ "var" \notin risk.done
    /\ risk' = [risk EXCEPT !.done = @ \cup {"var"},
                            !.value_at_risk = calculate_var(risk.returns)]
    /\ OnlyRisk

\* calculate_sharpe_ratio(returns)
CalculateSharpeRatio ==
    /\ risk.pc = "active"
    /\ "sharpe" \notin risk.done
    /\ risk' = [risk EXCEPT !.done = @ \cup {"sharpe"},
                            !.sharpe_ratio = calculate_sharpe_ratio(risk.returns)]
    /\ OnlyRisk

----------------------------------------------------------------------------
(* TechnicalAnalystAgent.calculate_macd (agents/tier2.py).                 *)

slow_window == 26
fast_window == 12

\* the longest price history given to calculate_macd
MaxMacdPrices == 28

\* price histories: a start price and a constant daily step
MacdPriceSeries ==
    {[i \in 1..n |-> base + step * i] :
        n \in 0..MaxMacdPrices, base \in {40, 100}, step \in {-1, 0, 1}}

\* sum(prices[-window:])
RECURSIVE SumLast(_, _)
SumLast(prices, window) ==
    IF window = 0 \/ prices = <<>> THEN 0
    ELSE prices[Len(prices)]
         + SumLast(SubSeq(prices, 1, Len(prices) - 1), window - 1)

NoMacd == <<RZero, RZero, RZero>>

calculate_macd(prices) ==
    IF Len(prices) < slow_window THEN NoMacd
    ELSE LET ema12 == Rat(SumLast(prices, fast_window), fast_window)
             ema26 == Rat(SumLast(prices, slow_window), slow_window)
             macd_line == RSub(ema12, ema26)
             signal_line == RMul(macd_line, Rat(8, 10))
             histogram == RSub(macd_line, signal_line)
         IN  <<macd_line, signal_line, histogram>>

OnlyMacd ==
    UNCHANGED <<portfolio, vote, ensemble, kelly, correlation, rsi,
                last_market_data, recent_decisions, trading_decisions, cycle,
                executor, regime, risk,
                simple_cycle, storage, manager, rebalancing>>

CalculateMacd ==
    /\ macd.pc = "start"
    /\ macd' = [macd EXCEPT !.pc = "done",
                            !.result = calculate_macd(macd.prices)]
    /\ OnlyMacd

\* one of the analysis engines is called: RSI, MACD, or VaR and Sharpe ratio
\* on one return series
InitEngines ==
    /\ portfolio = Idle /\ vote = Idle /\ ensemble = Idle /\ kelly = Idle
    /\ correlation = Idle /\ IdleFloor /\ IdleServices
    /\ executor = Idle /\ regime = Idle
    /\ \/ /\ rsi \in [pc : {"start"}, prices : PriceSeries,
                      period : 1..MaxPeriod, result : {RZero}]
          /\ macd = Idle /\ risk = Idle
       \/ /\ macd \in [pc : {"start"}, prices : MacdPriceSeries,
                       result : {NoMacd}]
          /\ rsi = Idle /\ risk = Idle
       \/ /\ risk \in [pc : {"active"}, done : {NoRiskCalls},
                       returns : RiskReturnSeries,
                       value_at_risk : {FZero}, sharpe_ratio : {FZero}]
          /\ rsi = Idle /\ macd = Idle

----------------------------------------------------------------------------
(* JSONStorage (services/json_storage.py): the two JSON files and the      *)
(* save calls.  A save has no await, so saves do not interleave.           *)

\* how many saves are followed, and how many of them carry a payload that
\* json.dump cannot write
MaxSaves == 52
MaxBadPayloads == 1

StorageFiles == {"analysis_results", "trading_decisions"}

\* what a save is called with: a dict json.dump can write, or one it raises
\* on part-way (a nested dict with a tuple key, a circular reference)
Payloads == {"serialisable", "unserialisable"}

\* a file as _init_storage_files writes it
EmptyFile == [readable |-> TRUE, entries |-> <<>>]

\* _read_json followed by the "not in storage_data" default: the stored
\* list; a file that does not parse reads as {}
read_json(file) == IF file.readable THEN file.entries ELSE <<>>

\* _write_json: open(file_path, 'w') truncates the file and json.dump
\* writes it; when json.dump raises, the file keeps the part written so
\* far, which does not parse, and the exception is swallowed
write_json(file, entries, payload) ==
    IF payload = "serialisable"
    THEN [readable |-> TRUE, entries |-> entries]
    ELSE [readable |-> FALSE, entries |-> <<>>]

\* save_analysis_result / save_trading_decision on one file: the entry is
\* the number of the call; both return True
save(file, entry, payload) ==
    write_json(file, LastN(Append(read_json(file), entry), StoredKept), payload)

OnlyStorage ==
    UNCHANGED <<portfolio, vote, ensemble, kelly, correlation, rsi,
                last_market_data, recent_decisions, trading_decisions, cycle,
                executor, regime, risk, macd,
                simple_cycle, manager, rebalancing>>

\* calls: how many saves were made on a file; saved: the entries of the
\* saves whose payload could be written; bad: the unserialisable payloads
\* so far (all three kept for the claims and the bounds)
InitStorage ==
    /\ storage = [files |-> [f \in StorageFiles |-> EmptyFile],
                  calls |-> [f \in StorageFiles |-> 0],
                  saved |-> [f \in StorageFiles |-> <<>>],
                  bad |-> 0]
    /\ portfolio = Idle /\ vote = Idle /\ ensemble = Idle /\ kelly = Idle
    /\ correlation = Idle /\ rsi = Idle /\ IdleFloor
    /\ executor = Idle /\ regime = Idle /\ risk = Idle /\ macd = Idle
    /\ simple_cycle = Idle /\ manager = Idle /\ rebalancing = Idle

Save(f, payload) ==
    /\ storage.calls["analysis_results"] + storage.calls["trading_decisions"]
           < MaxSaves
    /\ payload = "unserialisable" => storage.bad < MaxBadPayloads
    /\ LET entry == storage.calls[f] + 1
       IN  storage' =
               [files |-> [storage.files EXCEPT
                              ![f] = save(storage.files[f], entry, payload)],
                calls |-> [storage.calls EXCEPT ![f] = entry],
                saved |-> [storage.saved EXCEPT
                              ![f] = IF payload = "serialisable"
                                     THEN Append(@, entry) ELSE @],
                bad |-> IF payload = "unserialisable"
                        THEN storage.bad + 1 ELSE storage.bad]
    /\ OnlyStorage

SaveAnalysisResult == \E payload \in Payloads : Save("analysis_results", payload)

SaveTradingDecision == \E payload \in Payloads : Save("trading_decisions", payload)

----------------------------------------------------------------------------
(* ConnectionManager (core/websocket_manager.py): one broadcast, and the   *)
(* websocket handlers of main.py that connect and disconnect while the     *)
(* broadcast awaits a send.                                                *)

\* how many websockets there are
MaxConnections == 3

Connections == 1..MaxConnections

Range(seq) == {seq[i] : i \in DOMAIN seq}

\* active_connections.remove(websocket), for a websocket that occurs once
Remove(seq, w) ==
    LET i == CHOOSE j \in DOMAIN seq : seq[j] = w
    IN  SubSeq(seq, 1, i - 1) \o SubSeq(seq, i + 1, Len(seq))

\* disconnect(websocket)
disconnect(active_connections, websocket) ==
    IF websocket \in Range(active_connections)
    THEN Remove(active_connections, websocket)
    ELSE active_connections

\* "for client in disconnected_clients: self.disconnect(client)", from
\* client number i on
RECURSIVE DisconnectAll(_, _, _)
DisconnectAll(active_connections, disconnected_clients, i) ==
    IF i > Len(disconnected_clients) THEN active_connections
    ELSE DisconnectAll(disconnect(active_connections, disconnected_clients[i]),
                       disconnected_clients, i + 1)

OnlyManager ==
    UNCHANGED <<portfolio, vote, ensemble, kelly, correlation, rsi,
                last_market_data, recent_decisions, trading_decisions, cycle,
                executor, regime, risk, macd,
                simple_cycle, storage, rebalancing>>

\* next: the position the list iterator of line 46 reads next; current: the
\* connection whose send is awaited.  Kept for the claims: known (the
\* websockets that have connected), attempted and succeeded (sends of the
\* broadcast), stayed (registered since the broadcast started), left (the
\* websockets whose handler has disconnected them)
InitManager ==
    /\ manager = [active_connections |-> <<>>, pc |-> "idle", next |-> 0,
                  current |-> 0, disconnected_clients |-> <<>>,
                  known |-> {}, attempted |-> {}, succeeded |-> {},
                  stayed |-> {}, left |-> {}]
    /\ portfolio = Idle /\ vote = Idle /\ ensemble = Idle /\ kelly = Idle
    /\ correlation = Idle /\ rsi = Idle /\ IdleFloor
    /\ executor = Idle /\ regime = Idle /\ risk = Idle /\ macd = Idle
    /\ simple_cycle = Idle /\ storage = Idle /\ rebalancing = Idle

\* connect(websocket): accept has returned and the websocket is appended
Connect(w) ==
    /\ w \notin manager.known
    /\ manager' = [manager EXCEPT
                      !.active_connections = Append(@, w),
                      !.known = @ \cup {w}]
    /\ OnlyManager

\* the handler of w sees WebSocketDisconnect and calls disconnect(w)
Disconnect(w) ==
    /\ w \in Range(manager.active_connections)
    /\ manager' = [manager EXCEPT
                      !.active_connections = disconnect(@, w),
                      !.stayed = @ \ {w},
                      !.left = @ \cup {w}]
    /\ OnlyManager

\* broadcast(message) up to its first await: it returns at once when no
\* connection is registered, else the iterator yields the first connection
StartBroadcast ==
    /\ manager.pc = "idle"
    /\ manager' =
         IF manager.active_connections = <<>>
         THEN [manager EXCEPT !.pc = "returned"]
         ELSE [manager EXCEPT
                  !.pc = "sending",
                  !.current = manager.active_connections[1],
                  !.next = 2,
                  !.stayed = Range(manager.active_connections)]
    /\ OnlyManager

\* the awaited send_text returns or raises; the iterator then yields the
\* connection at its position in the list as it is now, or the loop ends,
\* the clients whose send raised are disconnected and broadcast returns
SendDone ==
    /\ manager.pc = "sending"
    /\ \E outcome \in {"sent", "raised"} :
        LET disconnected_clients ==
                IF outcome = "raised"
                THEN Append(manager.disconnected_clients, manager.current)
                ELSE manager.disconnected_clients
            attempted == manager.attempted \cup {manager.current}
            succeeded ==
                IF outcome = "sent"
                THEN manager.succeeded \cup {manager.current}
                ELSE manager.succeeded
        IN  manager' =
              IF manager.next <= Len(manager.active_connections)
              THEN [manager EXCEPT
                       !.current = manager.active_connections[manager.next],
                       !.next = @ + 1,
                       !.disconnected_clients = disconnected_clients,
                       !.attempted = attempted,
                       !.succeeded = succeeded]
              ELSE [manager EXCEPT
                       !.pc = "returned",
                       !.current = 0,
                       !.active_connections =
                           DisconnectAll(@, disconnected_clients, 1),
                       !.disconnected_clients = disconnected_clients,
                       !.attempted = attempted,
                       !.succeeded = succeeded]
    /\ OnlyManager

----------------------------------------------------------------------------
(* SimpleTradingFloor (simple_main.py): one execute_trading_cycle call;    *)
(* the agents of a tier run as tasks of one asyncio.gather.                *)

\* agents_config: the agents in insertion order, with their tier
agents_config ==
    <<[id |-> "market_data_collector", tier |-> 1],
      [id |-> "sentiment_analyzer", tier |-> 1],
      [id |-> "on-chain_monitor", tier |-> 1],
      [id |-> "technical_analyst", tier |-> 2],
      [id |-> "risk_calculator", tier |-> 2],
      [id |-> "correlation_analyzer", tier |-> 2],
      [id |-> "strategy_synthesizer", tier |-> 3],
      [id |-> "portfolio_optimizer", tier |-> 3],
      [id |-> "trade_executor", tier |-> 3]>>

LastTier == 3

AgentIds == {agents_config[i].id : i \in DOMAIN agents_config}

\* agent.tier
TierOf(agent) ==
    agents_config[CHOOSE i \in DOMAIN agents_config :
                      agents_config[i].id = agent].tier

\* tier_agents of _run_tier_agents
TierAgents(tier) == {a \in AgentIds : TierOf(a) = tier}

\* what the caller passes as market_data: a price per asset, or a dict per
\* asset (the shape the other trading floor uses)
SimpleMarketData == {"prices", "dicts"}

\* what a task of the gather ends with: buy and sell are the numbers of
\* buy words (buy, bullish, positive) and sell words (sell, bearish,
\* negative) in str(result)
Output(raised, buy, sell) == [raised |-> raised, buy |-> buy, sell |-> sell]

NoOutput == Output(FALSE, 0, 0)

\* SimpleAgent.analyze by the agent's name
AnalyzeOutputs(agent, market_data) ==
    IF agent = "market_data_collector"
    THEN IF market_data = "prices"
         THEN {Output(FALSE, 1, 0), Output(FALSE, 0, 1), Output(FALSE, 0, 0)}
         ELSE {Output(TRUE, 0, 0)}
    ELSE IF agent = "sentiment_analyzer"
    THEN {Output(FALSE, 2, 0), Output(FALSE, 0, 1), Output(FALSE, 0, 0)}
    ELSE IF agent = "technical_analyst"
    THEN {Output(FALSE, 2, 0), Output(FALSE, 0, 2), Output(FALSE, 0, 0)}
    ELSE IF agent = "strategy_synthesizer"
    THEN {Output(FALSE, 1, 0), Output(FALSE, 0, 1), Output(FALSE, 0, 0)}
    ELSE {Output(FALSE, 0, 0)}

\* the buy or sell words of the first n agents' results
RECURSIVE Signals(_, _, _)
Signals(results, word, n) ==
    IF n = 0 THEN 0
    ELSE Signals(results, word, n - 1) + results[agents_config[n].id][word]

\* _synthesize_decision: the action and the confidence every asset gets
synthesize_decision(results) ==
    LET buy_signals == Signals(results, "buy", Len(agents_config))
        sell_signals == Signals(results, "sell", Len(agents_config))
    IN  IF buy_signals > sell_signals + 1
        THEN [action |-> "BUY", confidence |-> Min(70 + buy_signals * 5, 95)]
        ELSE IF sell_signals > buy_signals + 1
        THEN [action |-> "SELL", confidence |-> Min(70 + sell_signals * 5, 95)]
        ELSE [action |-> "HOLD", confidence |-> 65]

\* mutant: the gather returns when the first of its tasks has ended
gather_done_First(tasks, tier) ==
    \E a \in TierAgents(tier) : tasks[a] = "done"

\* asyncio.gather(*tasks, return_exceptions=True) returns when every task
\* of the tier has ended, by returning or by raising
gather_done(tasks, tier) ==
    \A a \in TierAgents(tier) : tasks[a] = "done"

NoSimpleDecision == [action |-> "NONE", confidence |-> 0]

OnlySimpleFloor ==
    UNCHANGED <<portfolio, vote, ensemble, kelly, correlation, rsi,
                last_market_data, recent_decisions, trading_decisions, cycle,
                executor, regime, risk, macd,
                storage, manager, rebalancing>>

InitSimpleFloor ==
    /\ simple_cycle \in
         [pc : {"start"}, market_data : SimpleMarketData, tier : {0},
          tasks : {[a \in AgentIds |-> "none"]},
          results : {[a \in AgentIds |-> NoOutput]},
          status : {"none"}, decision : {NoSimpleDecision}]
    /\ portfolio = Idle /\ vote = Idle /\ ensemble = Idle /\ kelly = Idle
    /\ correlation = Idle /\ rsi = Idle /\ IdleFloor
    /\ executor = Idle /\ regime = Idle /\ risk = Idle /\ macd = Idle
    /\ storage = Idle /\ manager = Idle /\ rebalancing = Idle

\* the tasks of a tier are created and the gather is awaited
RunTier(frame, tier) ==
    [frame EXCEPT
        !.pc = "gather",
        !.tier = tier,
        !.tasks = [a \in AgentIds |->
                      IF a \in TierAgents(tier) THEN "running" ELSE @[a]]]

\* execute_trading_cycle is called: _run_tier_agents(1, market_data)
StartSimpleCycle ==
    /\ simple_cycle.pc = "start"
    /\ simple_cycle' = RunTier(simple_cycle, 1)
    /\ OnlySimpleFloor

\* the analyze call of one agent ends
AnalyzeDone(a) ==
    /\ simple_cycle.pc = "gather"
    /\ simple_cycle.tasks[a] = "running"
    /\ \E output \in AnalyzeOutputs(a, simple_cycle.market_data) :
        simple_cycle' = [simple_cycle EXCEPT !.tasks[a] = "done",
                                             !.results[a] = output]
    /\ OnlySimpleFloor

\* the gather returns: the next tier is run; after the last tier
\* _synthesize_decision runs (it has no await of its own) and the cycle
\* returns; the price target raises on market data that holds dicts
TierDone ==
    /\ simple_cycle.pc = "gather"
    /\ gather_done(simple_cycle.tasks, simple_cycle.tier)
    /\ simple_cycle' =
         IF simple_cycle.tier < LastTier
         THEN RunTier(simple_cycle, simple_cycle.tier + 1)
         ELSE IF simple_cycle.market_data = "prices"
         THEN [simple_cycle EXCEPT
                  !.pc = "done", !.status = "completed",
                  !.decision = synthesize_decision(simple_cycle.results)]
         ELSE [simple_cycle EXCEPT !.pc = "done", !.status = "failed"]
    /\ OnlySimpleFloor

----------------------------------------------------------------------------
(* Specifications.                                                          *)

NextPortfolio ==
    CalculateTargetWeights \/ ApplyRiskConstraints \/ GenerateRebalancingActions

SpecPortfolio == InitPortfolio /\ [][NextPortfolio]_vars

NextRiskConstraints == ApplyRiskConstraints \/ GenerateRebalancingActions

SpecRiskConstraints == InitRiskConstraints /\ [][NextRiskConstraints]_vars

NextVote == WeightedVote

SpecVote == InitVote /\ [][NextVote]_vars

NextEnsemble == \E r \in Runs : EnsembleDecisionMaking(r)

SpecEnsemble == InitEnsemble /\ [][NextEnsemble]_vars

NextFloor ==
    \E c \in Callers :
        \/ StartCycle(c)
        \/ FetchDone(c)
        \/ WorkflowDone(c)
        \/ VoteRaised(c)
        \/ VoteDone(c)
        \/ Broadcast(c)

SpecFloor == InitFloor /\ [][NextFloor]_vars

NextKelly == KellyCriterion

SpecKelly == InitKelly /\ [][NextKelly]_vars

NextCorrelation == CalculateCorrelation

SpecCorrelation == InitCorrelation /\ [][NextCorrelation]_vars

NextExecutor ==
    \/ ChooseExecutionAlgorithm
    \/ EstimateCosts
    \/ EstimateDuration
    \/ CalculateOrderSplits

SpecExecutor == InitExecutor /\ [][NextExecutor]_vars

NextRegime == AssessMarketRegime

SpecRegime == InitRegime /\ [][NextRegime]_vars

NextEngines ==
    CalculateRsi \/ CalculateMacd \/ CalculateVar \/ CalculateSharpeRatio

SpecEngines == InitEngines /\ [][NextEngines]_vars

NextRebalancing == PlanRebalancing \/ ReturnRebalancing

SpecRebalancing == InitRebalancing /\ [][NextRebalancing]_vars

SpecLongRunFloor == InitLongRunFloor /\ [][NextFloor]_vars

NextStorage == SaveAnalysisResult \/ SaveTradingDecision

SpecStorage == InitStorage /\ [][NextStorage]_vars

NextManager ==
    \/ \E w \in Connections : Connect(w)
    \/ \E w \in Connections : Disconnect(w)
    \/ StartBroadcast
    \/ SendDone

SpecManager == InitManager /\ [][NextManager]_vars

NextSimpleFloor ==
    \/ StartSimpleCycle
    \/ \E a \in AgentIds : AnalyzeDone(a)
    \/ TierDone

SpecSimpleFloor == InitSimpleFloor /\ [][NextSimpleFloor]_vars

NextRsi == CalculateRsi

SpecRsi == InitRsi /\ [][NextRsi]_vars

----------------------------------------------------------------------------
(* Claims.                                                                 *)

\* |x - y| <= 1e-6
WithinTolerance(x, y) ==
    LET diff == RAbs(RSub(x, y))
    IN  diff[1] <= diff[2] \div 1000000

\* C1: for every set of per-asset decisions, the target weights over BTC,
\* ETH, SOL and CASH after _calculate_target_weights and
\* _apply_risk_constraints sum to 1 within 1e-6.
C1_WeightsSumToOne ==
    portfolio.pc = "constrained" =>
        WithinTolerance(SumWeights(portfolio.constrained_weights, Assets), ROne)

\* C2: after _apply_risk_constraints no non-cash asset has a target weight
\* above 0.30, and the risky-asset cap and the cash floor leave every
\* non-cash weight at or below what the position cap left it.
C2_PositionCap ==
    portfolio.pc = "constrained" =>
        \A a \in Crypto :
            /\ RLe(portfolio.constrained_weights[a], max_position_size)
            /\ RLe(portfolio.constrained_weights[a],
                   CapPositions(portfolio.target_weights)[a])

\* the position cap had to act on a risky asset
C2_Witness ==
    /\ portfolio.pc = "constrained"
    /\ \E a \in Crypto : RLt(max_position_size, portfolio.target_weights[a])

\* all three votes name the action a, each with a positive confidence
Unanimous(a) ==
    /\ \A i \in DOMAIN vote.votes : vote.votes[i] = a
    /\ \A i \in DOMAIN vote.confidences : RLt(RZero, vote.confidences[i])

\* C12: when all three votes given to _weighted_vote name the same action
\* with positive confidences, the decision is that action and its confidence
\* is at least 90 and at most 95.
C12_UnanimousVote ==
    \A a \in Actions :
        (vote.pc = "done" /\ Unanimous(a)) =>
            /\ vote.final_decision.action = a
            /\ RLe(RInt(90), vote.final_decision.confidence)
            /\ RLe(vote.final_decision.confidence, RInt(95))

\* three BUY votes of confidence 90 have been combined
C12_Witness ==
    /\ vote.pc = "done"
    /\ Unanimous("BUY")
    /\ \A i \in DOMAIN vote.confidences : vote.confidences[i] = RInt(90)

\* C13: for every trade of size at least $50,000 executed with a non-Market
\* algorithm, _calculate_order_splits returns at least 2 orders, each with
\* order_size at most $25,000, and the i-th order (from 0) has
\* delay_minutes = 2*i.
C13_OrderSplits ==
    (/\ executor.pc = "planned"
     /\ RLe(RInt(50000), executor.trade_size)
     /\ executor.algorithm # "Market")
    => /\ Len(executor.order_splits) >= 2
       /\ \A k \in DOMAIN executor.order_splits :
            /\ RLe(executor.order_splits[k].order_size, RInt(25000))
            /\ executor.order_splits[k].delay_minutes = 2 * (k - 1)

\* the factor the size of a trade puts on the base duration
DurationFactor(trade_size) ==
    IF RLt(RInt(1000000), trade_size) THEN 4
    ELSE IF RLt(RInt(100000), trade_size) THEN 2
    ELSE 1

BaseDuration(algorithm) ==
    CASE algorithm = "Market" -> 1
      [] algorithm = "Limit" -> 5
      [] algorithm = "VWAP" -> 20
      [] algorithm = "TWAP" -> 30

\* C17: _estimate_duration returns the algorithm's base duration (Market 1,
\* Limit 5, VWAP 20, TWAP 30 minutes) multiplied by 4 when the trade size is
\* above $1,000,000, by 2 when it is above $100,000 and at most $1,000,000,
\* and by 1 otherwise.
C17_Duration ==
    executor.pc \in {"timed", "planned"} =>
        executor.estimated_duration =
            BaseDuration(executor.algorithm) * DurationFactor(executor.trade_size)

\* the algorithm the size, the volatility and the liquidity call for
ExpectedAlgorithm(trade_size, volatility, liquidity) ==
    IF RLt(trade_size, RInt(10000)) THEN "Market"
    ELSE IF RLt(trade_size, RInt(100000))
    THEN (IF volatility = "high" THEN "TWAP" ELSE "Limit")
    ELSE (IF volatility = "high" /\ liquidity # "poor" THEN "VWAP" ELSE "TWAP")

\* C18: _choose_execution_algorithm returns Market for every trade below
\* $10,000; from $10,000 to below $100,000 it returns TWAP when volatility is
\* high and Limit otherwise; for $100,000 or more it returns VWAP exactly when
\* volatility is high and liquidity is not poor, and TWAP otherwise.
C18_AlgorithmChoice ==
    [][executor.pc = "start" =>
          executor'.algorithm =
              ExpectedAlgorithm(executor.trade_size,
                                executor.market_conditions.volatility,
                                executor.market_conditions.liquidity)]_vars

\* a large trade was given an algorithm under high volatility and poor liquidity
C18_Witness ==
    /\ executor.pc = "chosen"
    /\ RLe(RInt(100000), executor.trade_size)
    /\ executor.market_conditions.volatility = "high"
    /\ executor.market_conditions.liquidity = "poor"
    /\ executor.algorithm = "TWAP"

\* the mean of the absolute coefficients of the assessed matrix
MeanAbs ==
    RDiv(SumAbs(regime.correlations, 1), RInt(Len(regime.correlations)))

\* C14: assess_market_regime labels a non-empty correlation matrix
\* LOW_CORRELATION whenever every pairwise coefficient is below 0.2
\* (coefficients range over [-1,1]); in general the label is HIGH_CORRELATION
\* when the mean absolute coefficient is above 0.7, MODERATE_CORRELATION when
\* above 0.4, else LOW_CORRELATION.
C14_MarketRegime ==
    regime.pc = "done" =>
        /\ (\A i \in DOMAIN regime.correlations :
                RLt(regime.correlations[i], Rat(2, 10)))
           => regime.market_regime = "LOW_CORRELATION"
        /\ regime.market_regime =
              IF RLt(Rat(7, 10), MeanAbs) THEN "HIGH_CORRELATION"
              ELSE IF RLt(Rat(4, 10), MeanAbs) THEN "MODERATE_CORRELATION"
              ELSE "LOW_CORRELATION"

\* every value of the return series given to the risk engines is zero
AllZeroReturns ==
    /\ Len(risk.returns) >= 1
    /\ \A i \in DOMAIN risk.returns : risk.returns[i] = FZero

\* C15: for a return series of any length >= 1 whose values are all zero,
\* calculate_sharpe_ratio returns 0 and calculate_var returns 0.
C15_ZeroSeries ==
    (risk.pc = "active" /\ AllZeroReturns) =>
        /\ "sharpe" \in risk.done => risk.sharpe_ratio = FZero
        /\ "var" \in risk.done => risk.value_at_risk = FZero

\* C16: on too little data the engines return their neutral default instead
\* of failing: calculate_rsi returns 50 for fewer than period+1 prices,
\* calculate_macd returns (0, 0, 0) for fewer than 26 prices, calculate_var
\* returns 0 for an empty series, and calculate_sharpe_ratio returns 0 for
\* fewer than 2 returns.
C16_NeutralDefaults ==
    /\ (rsi.pc = "done" /\ Len(rsi.prices) < rsi.period + 1)
       => rsi.result = RInt(50)
    /\ (macd.pc = "done" /\ Len(macd.prices) < 26)
       => macd.result = <<RZero, RZero, RZero>>
    /\ (risk.pc = "active" /\ "var" \in risk.done /\ Len(risk.returns) = 0)
       => risk.value_at_risk = FZero
    /\ (risk.pc = "active" /\ "sharpe" \in risk.done /\ Len(risk.returns) < 2)
       => risk.sharpe_ratio = FZero

\* the Sharpe ratio of a single non-zero return has been computed
C16_Witness ==
    /\ risk.pc = "active"
    /\ "sharpe" \in risk.done
    /\ Len(risk.returns) = 1
    /\ risk.returns[1] # FZero

\* the target weights given to _apply_risk_constraints are non-negative and
\* sum to 1
ValidTargets ==
    /\ \A a \in Assets : RLe(RZero, portfolio.target_weights[a])
    /\ SumWeights(portfolio.target_weights, Assets) = ROne

\* the weights as they stand when the cash floor is tested
BeforeFloor == CapCrypto(CapPositions(portfolio.target_weights))

FloorApplied == RLt(BeforeFloor["CASH"], Rat(5, 100))

\* C19: after _apply_risk_constraints the CASH target weight is at least
\* 0.05 for every input weight vector that is non-negative and sums to 1;
\* when the floor had to be applied CASH equals exactly 0.05 and the deficit
\* was taken from the non-cash weights in proportion to their size, leaving
\* each of them non-negative.
C19_CashFloor ==
    (portfolio.pc = "constrained" /\ ValidTargets) =>
        /\ RLe(Rat(5, 100), portfolio.constrained_weights["CASH"])
        /\ FloorApplied =>
             LET deficit == RSub(Rat(5, 100), BeforeFloor["CASH"])
                 others == SumWeights(BeforeFloor, Crypto)
             IN  /\ portfolio.constrained_weights["CASH"] = Rat(5, 100)
                 /\ SumWeights(portfolio.constrained_weights, Crypto)
                        = RSub(others, deficit)
                 /\ \A a \in Crypto :
                      /\ RLe(RZero, portfolio.constrained_weights[a])
                      /\ RMul(portfolio.constrained_weights[a], others)
                            = RMul(BeforeFloor[a], RSub(others, deficit))

\* the floor was applied to a vector with a positive cash weight below 0.05
C19_Witness ==
    /\ portfolio.pc = "constrained"
    /\ ValidTargets
    /\ FloorApplied
    /\ RLt(RZero, portfolio.target_weights["CASH"])

\* what the 30% position cap leaves of the non-cash weights, summed
CappedCrypto ==
    SumWeights([a \in Crypto |-> RMin(portfolio.target_weights[a], Rat(3, 10))],
               Crypto)

VoteSum(a) == WeightedScore(vote.votes, vote.confidences, a, 1)

TotalVoteSum == RAdd(RAdd(VoteSum("BUY"), VoteSum("SELL")), VoteSum("HOLD"))

WeightGap(a) ==
    RAbs(RSub(portfolio.constrained_weights[a],
              current_weight(portfolio.current_portfolio, a)))

ActionsFor(a) ==
    {i \in DOMAIN portfolio.rebalancing_actions :
        portfolio.rebalancing_actions[i].asset = a}

WeightDiff(x) ==
    RSub(portfolio.constrained_weights[x.asset],
         current_weight(portfolio.current_portfolio, x.asset))

\* |target weight - current weight| * total portfolio value
ExactAmount(x) ==
    RMul(RAbs(WeightDiff(x)), RInt(total_value(portfolio.current_portfolio)))

OrderedByChange ==
    \A i, j \in DOMAIN portfolio.rebalancing_actions :
        i < j => RLe(RAbs(portfolio.rebalancing_actions[j].weight_change),
                     RAbs(portfolio.rebalancing_actions[i].weight_change))

DirectionAndPriority(x) ==
    /\ x.action = "BUY" <=> RLt(RZero, WeightDiff(x))
    /\ x.action \in {"BUY", "SELL"}
    /\ x.priority = "high" <=> RLt(Rat(1, 10), RAbs(WeightDiff(x)))
    /\ x.priority \in {"high", "medium"}

WholeCents(amount) == RMul(amount, RInt(100))[2] = 1

AdjustedWeights ==
    AdjustAll([a \in Assets |-> Rat(25, 100)], portfolio.strategy_decisions, 1)

\* what the decision on a non-cash asset is to move: into it, and out of CASH
Shift(a) ==
    LET d == portfolio.strategy_decisions[a]
    IN  IF d.action = "BUY" THEN RMul(Rat(10, 100), Rat(d.confidence, 100))
        ELSE IF d.action = "SELL"
        THEN RNeg(RMul(Rat(15, 100), Rat(d.confidence, 100)))
        ELSE RZero

\* C23: in _calculate_target_weights, before clamping and renormalizing, a
\* BUY decision raises the asset's weight by 0.10 * confidence/100 and lowers
\* CASH by that same amount, and a SELL decision lowers the asset's weight by
\* 0.15 * confidence/100 and raises CASH by that same amount, so that the
\* weights still sum to 1 before renormalization.
C23_AdjustmentsKeepSum ==
    portfolio.pc = "targets" =>
        /\ \A a \in Crypto : AdjustedWeights[a] = RAdd(Rat(25, 100), Shift(a))
        /\ AdjustedWeights["CASH"] =
               RSub(Rat(25, 100),
                    RAdd(RAdd(Shift("BTC"), Shift("ETH")), Shift("SOL")))
        /\ SumWeights(AdjustedWeights, Assets) = ROne

\* the order sizes of the split orders number lo to hi, added up
RECURSIVE SumOrderSizes(_, _, _)
SumOrderSizes(order_splits, lo, hi) ==
    IF lo > hi THEN RZero
    ELSE IF lo = hi THEN order_splits[lo].order_size
    ELSE LET mid == (lo + hi) \div 2
         IN  RAdd(SumOrderSizes(order_splits, lo, mid),
                  SumOrderSizes(order_splits, mid + 1, hi))

C30_EmptyRebalancing ==
    (rebalancing.pc = "done" /\ rebalancing.rebalancing_actions = <<>>)
    => /\ rebalancing.status = "returned"
       /\ rebalancing.execution_summary.total_trades = 0
       /\ rebalancing.execution_summary.estimated_slippage = RZero
       /\ rebalancing.execution_summary.estimated_fees = RZero
       /\ rebalancing.execution_summary.risk_assessment = "low"

\* the actions that share the highest count of a vote breakdown
TopVoted(counts) == {a \in Actions : counts[a] = MaxCount(counts)}

\* C25: when _parse_voting_results counts votes (explicit VOTE: tokens, or
\* the keyword fallback) and the highest count is shared by two or more of
\* BUY, SELL and HOLD, the consensus_action is HOLD.
C25_TieIsHold ==
    \A c \in Callers :
        (/\ cycle[c].pc = "done"
         /\ cycle[c].result.kind = "trading_decision"
         /\ cycle[c].voted.kind \in {"tokens", "keywords"}
         /\ Cardinality(TopVoted(cycle[c].voted.counts)) >= 2)
        => cycle[c].result.consensus_action = "HOLD"

\* caller c's vote is parsed in this step
Parses(c) == cycle[c].pc = "vote" /\ cycle'[c].pc = "done"

\* the entries of recent_decisions that the cycle of caller c has appended
\* in this step: every cycle parses one vote, so they are those with its id
AppendedBy(c) ==
    LastN(recent_decisions',
          Cardinality({i \in DOMAIN recent_decisions' :
                          recent_decisions'[i].cycle = CycleId(c)}))

\* C26: after any sequence of trading cycles recent_decisions holds at most
\* 15 entries, and they are the most recently appended entries in the order
\* they were appended; each cycle whose vote parsing succeeds appends exactly
\* one entry per asset (BTC, ETH, SOL).
C26_RecentDecisions ==
    [][/\ Len(recent_decisions') <= RecentKept
       /\ \A c \in Callers :
            Parses(c) =>
              /\ recent_decisions' =
                     LastN(recent_decisions \o AppendedBy(c), RecentKept)
              /\ cycle'[c].result.kind = "trading_decision" =>
                     /\ Len(AppendedBy(c)) = Len(CryptoAssets)
                     /\ \A i \in DOMAIN CryptoAssets :
                            AppendedBy(c)[i].asset = CryptoAssets[i]
       /\ (\A c \in Callers : ~Parses(c)) =>
              recent_decisions' = recent_decisions]_vars

\* C27: after any sequence of save_trading_decision and save_analysis_result
\* calls each stored list holds at most 50 entries, and they are the most
\* recently saved entries in save order; a save never drops an entry that is
\* among the 50 most recent.
C27_StoredLists ==
    \A f \in StorageFiles :
        /\ Len(read_json(storage.files[f])) <= StoredKept
        /\ read_json(storage.files[f]) = LastN(storage.saved[f], StoredKept)

\* C28: broadcast attempts to send the message to every connection that
\* stays in active_connections for the whole broadcast, also when other
\* connections connect or disconnect while the broadcast is awaiting a send;
\* when it returns, every connection whose send failed has been removed and
\* every connection whose send succeeded and that did not disconnect is
\* still registered.
C28_Broadcast ==
    manager.pc = "returned"
    => /\ manager.stayed \subseteq manager.attempted
       /\ Range(manager.disconnected_clients)
              \cap Range(manager.active_connections) = {}
       /\ (manager.succeeded \ manager.left)
              \subseteq Range(manager.active_connections)

\* C24: within one trading cycle the stages run in strict order: the
\* analysis stage starts only after every intelligence agent has finished,
\* the strategy stage only after every analysis agent has finished, and the
\* final decision (vote or synthesis) only after the strategy stage has
\* finished; no stage of a cycle overlaps another stage of the same cycle.
C24_StagesInOrder ==
    /\ \A a, b \in AgentIds :
          (TierOf(a) < TierOf(b) /\ simple_cycle.tasks[b] # "none")
          => simple_cycle.tasks[a] = "done"
    /\ simple_cycle.status # "none"
          => \A a \in AgentIds : simple_cycle.tasks[a] = "done"

\* a cycle has run its three tiers and synthesized a BUY
C24_Witness ==
    /\ simple_cycle.pc = "done"
    /\ simple_cycle.status = "completed"
    /\ simple_cycle.decision.action = "BUY"

\* the actions that share the highest summed confidence
TiedActions(d) ==
    {a \in Actions : \A b \in Actions : RLe(d.weighted_scores[b], d.weighted_scores[a])}

\* among the tied actions, those with the highest raw vote count
TopCounted(d) ==
    {a \in TiedActions(d) :
        \A b \in TiedActions(d) : d.vote_distribution[b] <= d.vote_distribution[a]}

\* C3: in _weighted_vote, when two or more actions share the highest summed
\* confidence, the decision is the tied action with the highest raw vote
\* count, and HOLD if the vote counts are tied as well.
C3_TieBreak ==
    (vote.pc = "done" /\ Cardinality(TiedActions(vote.final_decision)) >= 2) =>
        IF Cardinality(TopCounted(vote.final_decision)) = 1
        THEN vote.final_decision.action \in TopCounted(vote.final_decision)
        ELSE vote.final_decision.action = "HOLD"

\* C4: if any stage of execute_trading_cycle raises (a workflow, the vote or
\* the parsing of the vote), the cycle returns a failure result (status
\* failed), never a result carrying consensus_action HOLD, and no later
\* stage is run on the failed stage's output.
C4_FailureReported ==
    \A c \in Callers :
        /\ (/\ cycle[c].pc = "done"
            /\ \/ cycle[c].raised
               \/ cycle[c].result.kind \in {"voting_error", "parsing_error"})
           => /\ cycle[c].result.status = "failed"
              /\ cycle[c].result.consensus_action # "HOLD"
        /\ cycle[c].raised => cycle[c].pc \notin {"workflow", "vote"}

\* C5: a cycle records its decisions for all three assets or for none: a
\* run of _parse_voting_results that ends in its error branch leaves
\* recent_decisions and the storage as they were.
C5_AllOrNothing ==
    [][\A c \in Callers :
          (/\ cycle[c].pc = "vote"
           /\ cycle'[c].pc = "done"
           /\ cycle'[c].result.kind = "parsing_error")
          => /\ recent_decisions' = recent_decisions
             /\ trading_decisions' = trading_decisions]_vars

\* C6: with two cycles running concurrently, every value a cycle returns
\* (each decision's price_target, the market_data field) comes from the
\* market snapshot of that same cycle.
C6_OwnSnapshot ==
    \A c \in Callers :
        (cycle[c].pc = "done" /\ cycle[c].result.kind = "trading_decision")
        => /\ cycle[c].result.market_data = CycleId(c)
           /\ \A i \in DOMAIN cycle[c].result.decisions :
                cycle[c].result.decisions[i].price_from = CycleId(c)

\* C7: two runs of ensemble_decision_making on the same intelligence and
\* analysis signals give every asset the same action and the same confidence.
C7_Deterministic ==
    (\A r \in Runs : ensemble.pc[r] = "done") =>
        ensemble.asset_decisions[1] = ensemble.asset_decisions[2]

\* C8: kelly_criterion returns a value in [0, 0.25] for every win_rate in
\* [0, 1], avg_win >= 0 and avg_loss, returns 0 when avg_loss <= 0, and
\* never fails with a division by zero.
C8_KellyInRange ==
    kelly.pc = "done" =>
        /\ kelly.result.status = "returned"
        /\ RLe(RZero, kelly.result.value)
        /\ RLe(kelly.result.value, Rat(25, 100))
        /\ RLe(kelly.avg_loss, RZero) => kelly.result.value = RZero

\* every value of the series is the same: its variance is 0
Constant(returns) == \A i, j \in DOMAIN returns : returns[i] = returns[j]

\* C9: calculate_correlation returns 0 whenever the two series differ in
\* length, have fewer than 2 points, or either series has zero variance.
C9_ZeroWhenDegenerate ==
    (/\ correlation.pc = "done"
     /\ \/ Len(correlation.returns1) # Len(correlation.returns2)
        \/ Len(correlation.returns1) < 2
        \/ Constant(correlation.returns1)
        \/ Constant(correlation.returns2))
    => correlation.result = FZero

\* the last `period` changes of the series have no loss
NoLossInWindow(prices, period) ==
    \A i \in (Len(prices) - period)..(Len(prices) - 1) : prices[i] <= prices[i + 1]

\* C10: calculate_rsi returns a value in [0, 100] for every non-empty price
\* series and every period >= 1, and 100 when the average loss over the last
\* `period` changes is 0.
C10_RsiInRange ==
    rsi.pc = "done" =>
        /\ RLe(RZero, rsi.result)
        /\ RLe(rsi.result, RInt(100))
        /\ (Len(rsi.prices) >= rsi.period + 1 /\ NoLossInWindow(rsi.prices, rsi.period))
           => rsi.result = RInt(100)

\* enough prices, gains and losses in the window: the quotient is computed
C10_Witness ==
    /\ rsi.pc = "done"
    /\ Len(rsi.prices) >= rsi.period + 1
    /\ RLt(RZero, rsi.result)
    /\ RLt(rsi.result, RInt(100))
    /\ rsi.result # RInt(50)

====
